---- MODULE Spec2Model ----
(***************************************************************************)
(* Routing decision and reroute-control loop of UrbanOS-POC:               *)
(*   routing/selector.py   evaluate_and_store_best_route                   *)
(*   routing/reroute.py    loop_once, deviation and GTFS-shift tests       *)
(*   routing/main.py       process_client                                  *)
(*   routing/db/db_connection.py  optimized_routes / reroutes writers      *)
(*   producer/producer_out.py     publish_results                          *)
(* Coordinates (lat, lon) are abstracted to place names, polylines to      *)
(* vertex sequences, WKT to strings, created_at to a logical clock.        *)
(***************************************************************************)
EXTENDS Integers, Sequences, FiniteSets, TLC

VARIABLES
  active,            \* view_active_clients_geodata: sequence of client ids
  poi,               \* view_combined_pois head per client (NULL: none)
  astar_routes,      \* latest astar_routes row per (client, destination)
  mapf_routes,       \* latest successful mapf_routes row per (client, destination)
  departures,        \* view_departure_candidates best row per (client, stop)
  lstm,              \* output of the cached LSTM model (or unavailable)
  top_routes,        \* favoured route_ids per client (_get_top_routes)
  switch_profile,    \* client_switch_profiles.avg_switch_seconds per client
  optimized_routes,  \* table optimized_routes: set of rows
  reroutes,          \* table reroutes: set of rows
  now,               \* database clock: NOW() of the next write
  off_counts,        \* reroute._off_counts: client -> consecutive off-path ticks
  rq,                \* loop_once: clients still to visit in this tick
  rpc,               \* loop_once / _reroute_client program counter
  chk,               \* locals of the last loop_once iteration (skipped: clients the tick left unvisited)
  rr,                \* locals of _reroute_client: [client, reason, before, plan]
  prevOff,           \* history: was the previous deviation test of the client off-path
  nchanges,          \* history: changes of a client's chosen tuple between two routed paths
  rows,              \* publisher: rows fetch_optimized_route returns now
  seen,              \* publisher: _seen dedup set
  pq,                \* publisher: rows of the current poll still to visit
  sent,              \* publisher: messages handed to the broker, in order
  failed,            \* publisher: keys whose publish raised
  pclock,            \* publisher: created_at of the next fresh row
  fin,               \* inputs of a function under test
  fout,              \* its result
  _stop,             \* main._stop: the stop signal is set
  mpc,               \* run_routing_engine: program counter of the main thread
  ppc,               \* planner_loop: program counter
  pbackoff,          \* planner_loop: backoff in seconds (0: None)
  plaunch,           \* planner_loop: clients whose thread is still to be started
  wk,                \* state of the latest process_client thread per client
  lpc,               \* reroute_loop: program counter
  lbackoff,          \* reroute_loop: backoff in seconds (0: None)
  fails              \* history: consecutive failed planner ticks

vars == <<active, poi, astar_routes, mapf_routes, departures, lstm, top_routes,
          switch_profile, optimized_routes, reroutes, now, off_counts,
          rq, rpc, chk, rr, prevOff, nchanges, rows, seen, pq, sent, failed,
          pclock, fin, fout, _stop, mpc, ppc, pbackoff, plaunch, wk, lpc,
          lbackoff, fails>>

envVars == <<active, poi, astar_routes, mapf_routes, departures, lstm,
             top_routes, switch_profile>>
dbVars == <<optimized_routes, reroutes, now, nchanges>>
watcherVars == <<off_counts, rq, rpc, chk, rr, prevOff>>
pubVars == <<rows, seen, pq, sent, failed, pclock>>
funVars == <<fin, fout>>
supVars == <<_stop, mpc, ppc, pbackoff, plaunch, wk, lpc, lbackoff, fails>>

----------------------------------------------------------------------------
\* Bounds of the model

MaxTime == 3        \* writes of the routing process per behaviour
MaxStreak == 2      \* cap of the deviation streak counter
MaxPubTicks == 2    \* advances of the publisher's database clock
MaxSent == 4        \* cap of the outbound message log
MaxFails == 6       \* consecutive failed planner ticks counted

\* Program constants

DEVIATION_METERS_DIRECT == 35
DEVIATION_METERS_MAPF == 60
DEVIATION_STREAKS_REQUIRED == 2
DELAY_THRESHOLD_SECONDS == 180
DEPARTURE_STALE_SECONDS == 45
HISTORY_BLEND == 15           \* percent
KNOWN_LINE_NUDGE == 5         \* percent
CLOSE_MARGIN == 10            \* percent
MAPF_PENALTY_METERS == 100
TIE_MAX_DELAY == 60
TIE_MAX_SWITCH == 120
FRESH_SECONDS == 10           \* INTERVAL '10 seconds' of fetch_optimized_route
BACKOFF_INITIAL == 2
PLANNER_BACKOFF_CAP == 60
REROUTE_BACKOFF_CAP == 30

----------------------------------------------------------------------------
\* Value domains

NULL == "NULL"
Clients == {"c1", "c2"}
Dests == {"D1", "D2"}
Inf == 1000000                \* float("inf") of _meters_point_to_linestring

\* shapely geometries are vertex sequences; the empty LineString() is <<>>
LineStringEmpty == <<>>
RoadPath(d) == <<"L1", d>>    \* the A* polyline from the client's origin to d

\* LineString.wkt / ST_GeomFromText / ST_AsText
Wkt(g) ==
  IF g = <<>> THEN "LINESTRING EMPTY"
  ELSE IF g = <<"L1", "D1">> THEN "LINESTRING(L1,D1)"
  ELSE IF g = <<"L1", "D2">> THEN "LINESTRING(L1,D2)"
  ELSE IF g = <<"L2", "D1">> THEN "LINESTRING(L2,D1)"
  ELSE "GEOMETRYCOLLECTION EMPTY"

\* shapely.wkt.loads guarded as in the selector: NULL or unparseable -> LineString()
Loads(w) ==
  IF w = "LINESTRING(L1,D1)" THEN <<"L1", "D1">>
  ELSE IF w = "LINESTRING(L1,D2)" THEN <<"L1", "D2">>
  ELSE IF w = "LINESTRING(L2,D1)" THEN <<"L2", "D1">>
  ELSE <<>>

NumVertices(w) == Len(Loads(w))

\* str.lower() on segment_type
Lower(s) ==
  IF s = "DIRECT" THEN "direct"
  ELSE IF s = "MULTIMODAL" THEN "multimodal"
  ELSE IF s = "FALLBACK" THEN "fallback"
  ELSE s

\* python `x or ""`
OrEmpty(x) == IF x = NULL THEN "" ELSE x

Max(a, b) == IF a >= b THEN a ELSE b
Abs(a) == IF a >= 0 THEN a ELSE -a

----------------------------------------------------------------------------
\* Rows

NoAstar == [present |-> FALSE, path |-> NULL, distance |-> 0, origin |-> NULL]
NoMapf == [present |-> FALSE, stop_id |-> NULL, distance |-> 0, path |-> NULL]
NoDep == [present |-> FALSE, delay |-> 0, age |-> 0, route_id |-> NULL]
NoRaw == [present |-> FALSE, stop_id |-> NULL, segment_type |-> NULL,
          origin |-> NULL, destination |-> NULL, path |-> NULL]
NoPlan == [kind |-> "none", stop_id |-> NULL, destination |-> NULL,
           path |-> <<>>, segment_type |-> NULL, origin |-> NULL]

\* the row astar/db save_astar_route writes for a POI target: >= 2 vertices
AstarRow(d) == [present |-> TRUE, path |-> Wkt(RoadPath(d)), distance |-> 500,
                origin |-> "L1"]
\* the row the selector's fallback seeds: path NULL, distance 0
SeededAstarRow(origin) == [present |-> TRUE, path |-> NULL, distance |-> 0,
                           origin |-> origin]
\* the row mapf_engine writes: the A* polyline, keyed by the boarding stop
MapfRow(d) == [present |-> TRUE, stop_id |-> "S100", distance |-> 800,
               path |-> Wkt(RoadPath(d))]
Dep(delay, age) == [present |-> TRUE, delay |-> delay, age |-> age, route_id |-> "14"]

----------------------------------------------------------------------------
\* routing/db/db_connection.py

RowsOf(tbl, c) == {r \in tbl : r.client_id = c}

SameKey(r, c, stop, seg) ==
  r.client_id = c /\ r.stop_id = stop /\ r.segment_type = seg

\* save_optimized_route as a plain INSERT, without the ON CONFLICT clause
InsertOnly(tbl, c, stop, dest, path, seg, is_chosen, origin, t) ==
  tbl \cup {[client_id |-> c, stop_id |-> stop, destination |-> dest,
             path |-> Wkt(path), segment_type |-> seg,
             is_chosen |-> is_chosen, origin |-> origin, created_at |-> t]}

\* INSERT ... ON CONFLICT (client_id, stop_id, segment_type) DO UPDATE SET
\* path, is_chosen, origin_lat, origin_lon, created_at (destination is not updated)
save_optimized_route(tbl, c, stop, dest, path, seg, is_chosen, origin, t) ==
  IF \E r \in tbl : SameKey(r, c, stop, seg)
  THEN {IF SameKey(r, c, stop, seg)
        THEN [r EXCEPT !.path = Wkt(path), !.is_chosen = is_chosen,
                       !.origin = origin, !.created_at = t]
        ELSE r : r \in tbl}
  ELSE tbl \cup {[client_id |-> c, stop_id |-> stop, destination |-> dest,
                  path |-> Wkt(path), segment_type |-> seg,
                  is_chosen |-> is_chosen, origin |-> origin, created_at |-> t]}

\* INSERT INTO reroutes (...) VALUES (..., TRUE, NOW())
save_reroute(tbl, c, stop, dest, path_wkt, seg, reason, origin, prev_stop, prev_seg, t) ==
  tbl \cup {[client_id |-> c, stop_id |-> stop, origin |-> origin,
             destination |-> dest, path |-> path_wkt, segment_type |-> seg,
             reason |-> reason, previous_stop_id |-> prev_stop,
             previous_segment_type |-> prev_seg, is_chosen |-> TRUE,
             created_at |-> t]}

\* SELECT segment_type, COUNT(*) ... GROUP BY segment_type, as the fraction
\* pair <<astar_n, mapf_n>> over den; (0.5, 0.5) when the client has no row
get_route_usage_ratios(tbl, c) ==
  LET res == RowsOf(tbl, c)
      astar_n == Cardinality({r \in res : Lower(r.segment_type) = "direct"})
      mapf_n == Cardinality({r \in res : Lower(r.segment_type) = "multimodal"})
  IN IF res = {} THEN [a |-> 1, m |-> 1, den |-> 2]
     ELSE [a |-> astar_n, m |-> mapf_n, den |-> Cardinality(res)]

\* the row with the least created_at (ORDER BY created_at ASC)
Oldest(S) == CHOOSE r \in S : \A q \in S : r.created_at <= q.created_at

\* the row with the greatest created_at
Latest(S) == CHOOSE r \in S : \A q \in S : q.created_at <= r.created_at

----------------------------------------------------------------------------
\* routing/selector.py

\* _predict_with_lstm accepting an output of any other shape as the pair
\* [0, 1] instead of raising
PredictAnyShape(out) ==
  IF out.shape = "pair" THEN [ok |-> TRUE, astar |-> out.a, mapf |-> out.b]
  ELSE IF out.shape = "scalar" THEN [ok |-> TRUE, astar |-> 100 - out.a, mapf |-> out.a]
  ELSE IF out.shape = "other" THEN [ok |-> TRUE, astar |-> 0, mapf |-> 100]
  ELSE [ok |-> FALSE, astar |-> 0, mapf |-> 0]

\* _predict_with_lstm: length-2 scores, or a scalar s -> [1 - s, s];
\* model missing or any other shape raises
_predict_with_lstm(out) ==
  IF out.shape = "pair" THEN [ok |-> TRUE, astar |-> out.a, mapf |-> out.b]
  ELSE IF out.shape = "scalar" THEN [ok |-> TRUE, astar |-> 100 - out.a, mapf |-> out.a]
  ELSE [ok |-> FALSE, astar |-> 0, mapf |-> 0]

\* _blend_with_history without the shift s - s.min(): the scores are
\* normalised by their sum
BlendWithoutShift(scores, ratios, dep_route_id, top) ==
  LET mn == 0
      s0 == scores.astar - mn
      s1 == scores.mapf - mn
      degenerate == s0 + s1 <= 0
      pm0 == IF degenerate THEN 1 ELSE s0
      pm1 == IF degenerate THEN 1 ELSE s1
      pd == IF degenerate THEN 2 ELSE s0 + s1
      nohist == ratios.a + ratios.m <= 0
      h0 == IF nohist THEN 1 ELSE ratios.a
      h1 == IF nohist THEN 1 ELSE ratios.m
      hd == IF nohist THEN 2 ELSE ratios.a + ratios.m
      one == 100 * pd * hd
      b0 == (100 - HISTORY_BLEND) * pm0 * hd + HISTORY_BLEND * h0 * pd
      b1 == (100 - HISTORY_BLEND) * pm1 * hd + HISTORY_BLEND * h1 * pd
      nudged == IF dep_route_id # NULL /\ dep_route_id \in top
                THEN (IF b1 + KNOWN_LINE_NUDGE * pd * hd <= one
                      THEN b1 + KNOWN_LINE_NUDGE * pd * hd ELSE one)
                ELSE b1
  IN [astar |-> b0, mapf |-> nudged]

\* _blend_with_history: the blended pair, as numerators over their sum
_blend_with_history(scores, ratios, dep_route_id, top) ==
  LET mn == IF scores.astar <= scores.mapf THEN scores.astar ELSE scores.mapf
      s0 == scores.astar - mn
      s1 == scores.mapf - mn
      degenerate == s0 + s1 <= 0
      pm0 == IF degenerate THEN 1 ELSE s0
      pm1 == IF degenerate THEN 1 ELSE s1
      pd == IF degenerate THEN 2 ELSE s0 + s1
      nohist == ratios.a + ratios.m <= 0
      h0 == IF nohist THEN 1 ELSE ratios.a
      h1 == IF nohist THEN 1 ELSE ratios.m
      hd == IF nohist THEN 2 ELSE ratios.a + ratios.m
      one == 100 * pd * hd
      b0 == (100 - HISTORY_BLEND) * pm0 * hd + HISTORY_BLEND * h0 * pd
      b1 == (100 - HISTORY_BLEND) * pm1 * hd + HISTORY_BLEND * h1 * pd
      nudged == IF dep_route_id # NULL /\ dep_route_id \in top
                THEN (IF b1 + KNOWN_LINE_NUDGE * pd * hd <= one
                      THEN b1 + KNOWN_LINE_NUDGE * pd * hd ELSE one)
                ELSE b1
  IN [astar |-> b0, mapf |-> nudged]

\* the tie-breaker with delay < 60 in place of delay <= 60
FinalChoiceStrictDelay(blended, delay, avg_switch) ==
  LET total == blended.astar + blended.mapf
      close == 100 * Abs(blended.mapf - blended.astar) < CLOSE_MARGIN * total
  IN IF close /\ avg_switch.present /\ delay < TIE_MAX_DELAY
        /\ avg_switch.seconds <= TIE_MAX_SWITCH
     THEN "mapf"
     ELSE IF blended.mapf > blended.astar THEN "mapf" ELSE "astar"

\* the tie-breaker and argmax of evaluate_and_store_best_route, lines 304-310
FinalChoice(blended, delay, avg_switch) ==
  LET total == blended.astar + blended.mapf
      close == 100 * Abs(blended.mapf - blended.astar) < CLOSE_MARGIN * total
  IN IF close /\ avg_switch.present /\ delay <= TIE_MAX_DELAY
        /\ avg_switch.seconds <= TIE_MAX_SWITCH
     THEN "mapf"
     ELSE IF blended.mapf > blended.astar THEN "mapf" ELSE "astar"

\* the heuristic fallback with <= in place of <
HeuristicChoiceAtEquality(astar_dist, mapf_dist, delay) ==
  IF astar_dist <= mapf_dist + MAPF_PENALTY_METERS + Max(0, delay)
  THEN "astar" ELSE "mapf"

\* the heuristic fallback, lines 334-335
HeuristicChoice(astar_dist, mapf_dist, delay) ==
  IF astar_dist < mapf_dist + MAPF_PENALTY_METERS + Max(0, delay)
  THEN "astar" ELSE "mapf"

\* the save with the sentinel stop_id whatever the segment is
SavePlanSentinel(stop, dest, path, seg, origin) ==
  [kind |-> "save", stop_id |-> "direct", destination |-> dest, path |-> path,
   segment_type |-> seg, origin |-> origin]

\* the arguments of a save_optimized_route call for a scored candidate
SavePlan(stop, dest, path, seg, origin) ==
  [kind |-> "save", stop_id |-> stop, destination |-> dest, path |-> path,
   segment_type |-> seg, origin |-> origin]

\* evaluate_and_store_best_route without the return on a missing aligned
\* departure: the candidates are scored whether or not a departure exists
EvaluateOnIgnoringDeparture(c, loc, astar_tbl, opt_tbl) ==
  IF poi[c] = NULL THEN NoPlan
  ELSE
    LET d == poi[c]
        astar == astar_tbl[c][d]
    IN IF ~astar.present
       THEN IF loc = NULL THEN NoPlan
            ELSE [kind |-> "fallback", stop_id |-> "direct", destination |-> d,
                  path |-> LineStringEmpty, segment_type |-> "fallback",
                  origin |-> loc]
       ELSE
         LET astar_path == Loads(astar.path)
             mapf == mapf_routes[c][d]
             direct == SavePlan("direct", d, astar_path, "direct", astar.origin)
         IN IF ~mapf.present THEN direct
            ELSE
              LET dep == departures[c][mapf.stop_id]
                  multimodal == SavePlan(mapf.stop_id, d, Loads(mapf.path),
                                         "multimodal", astar.origin)
                  pred == _predict_with_lstm(lstm)
                  ratios == get_route_usage_ratios(opt_tbl, c)
                  blended == _blend_with_history(pred, ratios, dep.route_id,
                                                 top_routes[c])
                  choice == IF pred.ok
                            THEN FinalChoice(blended, dep.delay, switch_profile[c])
                            ELSE HeuristicChoice(astar.distance, mapf.distance,
                                                 dep.delay)
              IN IF choice = "astar" THEN direct ELSE multimodal

\* evaluate_and_store_best_route without the return on a missing combined
\* POI: the call goes on with a default destination
EvaluateOnDefaultPoi(c, loc, astar_tbl, opt_tbl) ==
  IF FALSE THEN NoPlan
  ELSE
    LET d == IF poi[c] = NULL THEN "D1" ELSE poi[c]
        astar == astar_tbl[c][d]
    IN IF ~astar.present
       THEN IF loc = NULL THEN NoPlan
            ELSE [kind |-> "fallback", stop_id |-> "direct", destination |-> d,
                  path |-> LineStringEmpty, segment_type |-> "fallback",
                  origin |-> loc]
       ELSE
         LET astar_path == Loads(astar.path)
             mapf == mapf_routes[c][d]
             direct == SavePlan("direct", d, astar_path, "direct", astar.origin)
         IN IF ~mapf.present THEN direct
            ELSE
              LET dep == departures[c][mapf.stop_id]
                  multimodal == SavePlan(mapf.stop_id, d, Loads(mapf.path),
                                         "multimodal", astar.origin)
                  pred == _predict_with_lstm(lstm)
                  ratios == get_route_usage_ratios(opt_tbl, c)
                  blended == _blend_with_history(pred, ratios, dep.route_id,
                                                 top_routes[c])
                  choice == IF pred.ok
                            THEN FinalChoice(blended, dep.delay, switch_profile[c])
                            ELSE HeuristicChoice(astar.distance, mapf.distance,
                                                 dep.delay)
              IN IF ~dep.present THEN direct
                 ELSE IF choice = "astar" THEN direct ELSE multimodal

\* the reads and the decision of evaluate_and_store_best_route(c) over the
\* tables astar_tbl and opt_tbl; loc is the result of fetch_latest_location
\* (NULL: none)
EvaluateOn(c, loc, astar_tbl, opt_tbl) ==
  IF poi[c] = NULL THEN NoPlan
  ELSE
    LET d == poi[c]
        astar == astar_tbl[c][d]
    IN IF ~astar.present
       THEN IF loc = NULL THEN NoPlan
            ELSE [kind |-> "fallback", stop_id |-> "direct", destination |-> d,
                  path |-> LineStringEmpty, segment_type |-> "fallback",
                  origin |-> loc]
       ELSE
         LET astar_path == Loads(astar.path)
             mapf == mapf_routes[c][d]
             direct == SavePlan("direct", d, astar_path, "direct", astar.origin)
         IN IF ~mapf.present THEN direct
            ELSE
              LET dep == departures[c][mapf.stop_id]
                  multimodal == SavePlan(mapf.stop_id, d, Loads(mapf.path),
                                         "multimodal", astar.origin)
                  pred == _predict_with_lstm(lstm)
                  ratios == get_route_usage_ratios(opt_tbl, c)
                  blended == _blend_with_history(pred, ratios, dep.route_id,
                                                 top_routes[c])
                  choice == IF pred.ok
                            THEN FinalChoice(blended, dep.delay, switch_profile[c])
                            ELSE HeuristicChoice(astar.distance, mapf.distance,
                                                 dep.delay)
              IN IF ~dep.present THEN direct
                 ELSE IF choice = "astar" THEN direct ELSE multimodal

Evaluate(c, loc) == EvaluateOn(c, loc, astar_routes, optimized_routes)

\* the writes of evaluate_and_store_best_route for a decided plan, at time t
PlanRoutes(tbl, c, plan, t) ==
  IF plan.kind = "none" THEN tbl
  ELSE save_optimized_route(tbl, c, plan.stop_id, plan.destination, plan.path,
                            plan.segment_type, TRUE, plan.origin, t)

\* the fallback without its INSERT INTO astar_routes
PlanAstarNoSeed(tbl, c, plan) == tbl

\* the fallback's INSERT INTO astar_routes ... ON CONFLICT DO NOTHING
PlanAstar(tbl, c, plan) ==
  IF plan.kind = "fallback"
  THEN [tbl EXCEPT ![c][plan.destination] = SeededAstarRow(plan.origin)]
  ELSE tbl

----------------------------------------------------------------------------
\* routing/reroute.py

NoChoice == [present |-> FALSE, segment_type |-> "", stop_id |-> NULL,
             path_wkt |-> NULL]

\* SELECT ... FROM optimized_routes WHERE client_id = c AND is_chosen
\* ORDER BY created_at DESC LIMIT 1
_fetch_current_choice(tbl, c) ==
  LET chosen == {r \in RowsOf(tbl, c) : r.is_chosen}
  IN IF chosen = {} THEN NoChoice
     ELSE LET r == Latest(chosen)
          IN [present |-> TRUE, segment_type |-> Lower(OrEmpty(r.segment_type)),
              stop_id |-> r.stop_id, path_wkt |-> r.path]

\* SELECT ... FROM view_routes_live WHERE client_id = c LIMIT 1: the client's
\* current chosen route
_fetch_current_choice_raw(tbl, c) ==
  LET chosen == {r \in RowsOf(tbl, c) : r.is_chosen}
  IN IF chosen = {} THEN NoRaw
     ELSE LET r == Latest(chosen)
          IN [present |-> TRUE, stop_id |-> r.stop_id,
              segment_type |-> r.segment_type, origin |-> r.origin,
              destination |-> r.destination, path |-> r.path]

\* _meters_point_to_linestring: inf for a missing, unparseable or empty line,
\* otherwise the planar distance d of the point to the line
_meters_point_to_linestring(d, line_wkt) ==
  IF line_wkt = NULL \/ line_wkt = "" THEN Inf
  ELSE IF Loads(line_wkt) = <<>> THEN Inf
  ELSE d

Threshold(segment_type) ==
  IF segment_type = "multimodal" THEN DEVIATION_METERS_MAPF
  ELSE DEVIATION_METERS_DIRECT

\* the off-path comparison with >= in place of >
OffPathAtThreshold(dist, thr) == dist >= thr

\* off = dist > thr
OffPath(dist, thr) == dist > thr

\* the streak update without the else branch that resets the counter
StreakNoReset(count, off) == IF off THEN count + 1 ELSE count

\* the streak update of _needs_reroute_for_deviation, lines 109-112
Streak(count, off) == IF off THEN count + 1 ELSE 0

\* _needs_reroute_for_deviation with the counter set back to 0 when it fires
DeviationResetOnFire(count, choice, d) ==
  IF ~choice.present \/ choice.path_wkt = NULL \/ choice.path_wkt = ""
  THEN [ran |-> FALSE, dist |-> 0, off |-> FALSE, count |-> count, fire |-> TRUE,
        reason |-> "no_path_in_choice", raised |-> FALSE]
  ELSE
    LET dist == _meters_point_to_linestring(d, choice.path_wkt)
        off == OffPath(dist, Threshold(choice.segment_type))
        cnt == Streak(count, off)
    IN IF cnt >= DEVIATION_STREAKS_REQUIRED
       THEN IF dist = Inf
            THEN [ran |-> TRUE, dist |-> dist, off |-> off, count |-> 0,
                  fire |-> FALSE, reason |-> "", raised |-> TRUE]
            ELSE [ran |-> TRUE, dist |-> dist, off |-> off, count |-> 0,
                  fire |-> TRUE,
                  reason |-> "off_path_" \o ToString(dist) \o "m",
                  raised |-> FALSE]
       ELSE [ran |-> TRUE, dist |-> dist, off |-> off, count |-> cnt,
             fire |-> FALSE, reason |-> "", raised |-> FALSE]

\* _needs_reroute_for_deviation(client, choice, lat, lon), count = _off_counts.get(client, 0),
\* d the planar distance of (lat, lon) to the advised line. int(inf) raises OverflowError.
_needs_reroute_for_deviation(count, choice, d) ==
  IF ~choice.present \/ choice.path_wkt = NULL \/ choice.path_wkt = ""
  THEN [ran |-> FALSE, dist |-> 0, off |-> FALSE, count |-> count, fire |-> TRUE,
        reason |-> "no_path_in_choice", raised |-> FALSE]
  ELSE
    LET dist == _meters_point_to_linestring(d, choice.path_wkt)
        off == OffPath(dist, Threshold(choice.segment_type))
        cnt == Streak(count, off)
    IN IF cnt >= DEVIATION_STREAKS_REQUIRED
       THEN IF dist = Inf
            THEN [ran |-> TRUE, dist |-> dist, off |-> off, count |-> cnt,
                  fire |-> FALSE, reason |-> "", raised |-> TRUE]
            ELSE [ran |-> TRUE, dist |-> dist, off |-> off, count |-> cnt,
                  fire |-> TRUE,
                  reason |-> "off_path_" \o ToString(dist) \o "m",
                  raised |-> FALSE]
       ELSE [ran |-> TRUE, dist |-> dist, off |-> off, count |-> cnt,
             fire |-> FALSE, reason |-> "", raised |-> FALSE]

\* _needs_reroute_for_gtfs with >= in place of > in the staleness test
GtfsStaleAtThreshold(choice, has, dep) ==
  IF ~choice.present \/ choice.segment_type # "multimodal"
  THEN [fire |-> FALSE, reason |-> ""]
  ELSE IF choice.stop_id = NULL \/ choice.stop_id = ""
  THEN [fire |-> TRUE, reason |-> "missing_stop_id"]
  ELSE IF ~has THEN [fire |-> TRUE, reason |-> "no_departure_candidate"]
  ELSE IF ~dep.present THEN [fire |-> TRUE, reason |-> "no_departure_row"]
  ELSE IF dep.age >= DEPARTURE_STALE_SECONDS
  THEN [fire |-> TRUE, reason |-> "departure_passed"]
  ELSE IF dep.delay > DELAY_THRESHOLD_SECONDS
  THEN [fire |-> TRUE, reason |-> "delay_" \o ToString(dep.delay) \o "s"]
  ELSE [fire |-> FALSE, reason |-> ""]

\* _needs_reroute_for_gtfs(client, choice): has is has_departure_candidate,
\* dep is _latest_departure_snapshot, dep.age is now - departure_time in seconds.
\* A NULL delay_seconds counts as 0, a NULL departure_time skips the staleness test.
_needs_reroute_for_gtfs(choice, has, dep) ==
  IF ~choice.present \/ choice.segment_type # "multimodal"
  THEN [fire |-> FALSE, reason |-> ""]
  ELSE IF choice.stop_id = NULL \/ choice.stop_id = ""
  THEN [fire |-> TRUE, reason |-> "missing_stop_id"]
  ELSE IF ~has THEN [fire |-> TRUE, reason |-> "no_departure_candidate"]
  ELSE IF ~dep.present THEN [fire |-> TRUE, reason |-> "no_departure_row"]
  ELSE IF dep.age > DEPARTURE_STALE_SECONDS
  THEN [fire |-> TRUE, reason |-> "departure_passed"]
  ELSE IF dep.delay > DELAY_THRESHOLD_SECONDS
  THEN [fire |-> TRUE, reason |-> "delay_" \o ToString(dep.delay) \o "s"]
  ELSE [fire |-> FALSE, reason |-> ""]

\* the comparison without the `before is None` case
ChangedNeedsBefore(before, after) ==
  /\ before.present
  /\ \/ OrEmpty(before.segment_type) # OrEmpty(after.segment_type)
     \/ OrEmpty(before.stop_id) # OrEmpty(after.stop_id)
     \/ OrEmpty(before.path) # OrEmpty(after.path)

\* the comparison of _reroute_client, lines 180-183
Changed(before, after) ==
  \/ ~before.present
  \/ OrEmpty(before.segment_type) # OrEmpty(after.segment_type)
  \/ OrEmpty(before.stop_id) # OrEmpty(after.stop_id)
  \/ OrEmpty(before.path) # OrEmpty(after.path)

----------------------------------------------------------------------------
\* State of the routing process

Locs == {NULL, "L1"}              \* fetch_latest_location: none, or a point
Dists == {35, 36, 60, 61}         \* planar distances of the point to the line
NoChk == [client |-> NULL, located |-> FALSE, segment_type |-> "", ran |-> FALSE,
          dist |-> 0, off |-> FALSE, prev |-> FALSE, need_dev |-> FALSE,
          why_dev |-> "", raised |-> FALSE, need_gtfs |-> FALSE, why_gtfs |-> "",
          skipped |-> 0]
NoRr == [client |-> NULL, reason |-> "", before |-> NoRaw, plan |-> NoPlan,
         wrote |-> FALSE]

IsActive(c) == \E k \in 1..Len(active) : active[k] = c

Tuple(raw) == <<OrEmpty(raw.segment_type), OrEmpty(raw.stop_id), OrEmpty(raw.path)>>

\* the writes of one evaluate_and_store_best_route call, stamped NOW()
Commit(c, plan) ==
  IF plan.kind = "none"
  THEN UNCHANGED <<optimized_routes, astar_routes, now, nchanges>>
  ELSE /\ now <= MaxTime
       /\ optimized_routes' = PlanRoutes(optimized_routes, c, plan, now)
       /\ astar_routes' = PlanAstar(astar_routes, c, plan)
       /\ now' = now + 1
       /\ LET before == _fetch_current_choice_raw(optimized_routes, c)
              after == _fetch_current_choice_raw(optimized_routes', c)
          IN nchanges' = IF /\ before.present
                            /\ NumVertices(before.path) >= 2
                            /\ NumVertices(after.path) >= 2
                            /\ Tuple(before) # Tuple(after)
                         THEN [nchanges EXCEPT ![c] = @ + 1]
                         ELSE nchanges

----------------------------------------------------------------------------
\* routing/main.py: planner_loop and process_client

\* a planner worker: process_client(c) runs evaluate_and_store_best_route(c)
ProcessClient(c) ==
  /\ IsActive(c)
  /\ \E loc \in Locs : Commit(c, Evaluate(c, loc))
  /\ UNCHANGED <<active, poi, mapf_routes, departures, lstm, top_routes,
                 switch_profile, reroutes, watcherVars, pubVars, funVars, supVars>>

----------------------------------------------------------------------------
\* routing/reroute.py: loop_once and _reroute_client

\* the for loop moves on to the next client, or loop_once returns
NextClient == IF Len(rq) > 1 THEN "check" ELSE "sleep"

\* clients = fetch_active_clients(); if not clients: return
RerouteTick ==
  /\ rpc = "sleep"
  /\ Len(active) > 0
  /\ rq' = active
  /\ rpc' = "check"
  /\ UNCHANGED <<envVars, dbVars, off_counts, chk, rr, prevOff,
                 pubVars, funVars, supVars>>

\* one iteration of the for loop up to the decision to reroute
RerouteCheck ==
  /\ rpc = "check"
  /\ LET c == Head(rq)
         choice == _fetch_current_choice(optimized_routes, c)
     IN \E loc \in Locs, d \in Dists :
          IF loc = NULL
          THEN /\ chk' = [NoChk EXCEPT !.client = c]
               /\ rq' = Tail(rq)
               /\ rpc' = NextClient
               /\ UNCHANGED <<off_counts, prevOff, rr>>
          ELSE
            LET dev == _needs_reroute_for_deviation(off_counts[c], choice, d)
                dep == departures[c][IF choice.stop_id \in DOMAIN departures[c]
                                     THEN choice.stop_id ELSE "S100"]
                gtfs == _needs_reroute_for_gtfs(choice, dep.present, dep)
                need_gtfs == ~dev.raised /\ ~dev.fire /\ gtfs.fire
            IN /\ dev.count <= MaxStreak
               /\ off_counts' = [off_counts EXCEPT ![c] = dev.count]
               /\ prevOff' = IF dev.ran THEN [prevOff EXCEPT ![c] = dev.off]
                             ELSE prevOff
               /\ chk' = [client |-> c, located |-> TRUE,
                          segment_type |-> choice.segment_type, ran |-> dev.ran,
                          dist |-> dev.dist, off |-> dev.off, prev |-> prevOff[c],
                          need_dev |-> dev.fire, why_dev |-> dev.reason,
                          raised |-> dev.raised, need_gtfs |-> need_gtfs,
                          why_gtfs |-> IF need_gtfs THEN gtfs.reason ELSE "",
                          skipped |-> IF dev.raised THEN Len(Tail(rq)) ELSE 0]
               /\ IF dev.raised
                  THEN rq' = <<>> /\ rpc' = "sleep" /\ UNCHANGED rr
                  ELSE IF dev.fire \/ gtfs.fire
                  THEN /\ rr' = [NoRr EXCEPT !.client = c,
                                   !.reason = IF dev.fire THEN dev.reason
                                              ELSE gtfs.reason]
                       /\ rpc' = "before"
                       /\ UNCHANGED rq
                  ELSE rq' = Tail(rq) /\ rpc' = NextClient /\ UNCHANGED rr
  /\ UNCHANGED <<envVars, dbVars, pubVars, funVars, supVars>>

\* before = _fetch_current_choice_raw(client_id)
RerouteBefore ==
  /\ rpc = "before"
  /\ rr' = [rr EXCEPT !.before = _fetch_current_choice_raw(optimized_routes, rr.client)]
  /\ rpc' = "eval"
  /\ UNCHANGED <<envVars, dbVars, off_counts, rq, chk, prevOff,
                 pubVars, funVars, supVars>>

\* evaluate_and_store_best_route(client_id): reads and decision
RerouteEval ==
  /\ rpc = "eval"
  /\ \E loc \in Locs : rr' = [rr EXCEPT !.plan = Evaluate(rr.client, loc)]
  /\ rpc' = "commit"
  /\ UNCHANGED <<envVars, dbVars, off_counts, rq, chk, prevOff,
                 pubVars, funVars, supVars>>

\* evaluate_and_store_best_route(client_id): writes
RerouteCommit ==
  /\ rpc = "commit"
  /\ Commit(rr.client, rr.plan)
  /\ rpc' = "after"
  /\ UNCHANGED <<active, poi, mapf_routes, departures, lstm, top_routes,
                 switch_profile, reroutes, off_counts, rq, chk, rr,
                 prevOff, pubVars, funVars, supVars>>

\* after = _fetch_current_choice_raw(client_id); the comparison; save_reroute
RerouteAfter ==
  /\ rpc = "after"
  /\ LET c == rr.client
         before == rr.before
         after == _fetch_current_choice_raw(optimized_routes, c)
     IN IF after.present /\ Changed(before, after)
        THEN /\ now <= MaxTime
             /\ reroutes' = save_reroute(reroutes, c, after.stop_id,
                                after.destination,
                                IF OrEmpty(after.path) = "" THEN "LINESTRING EMPTY"
                                ELSE after.path,
                                IF OrEmpty(after.segment_type) = "" THEN "unknown"
                                ELSE after.segment_type,
                                rr.reason, after.origin,
                                IF before.present THEN before.stop_id ELSE NULL,
                                IF before.present THEN before.segment_type ELSE NULL,
                                now)
             /\ now' = now + 1
             /\ rr' = [rr EXCEPT !.wrote = TRUE]
        ELSE UNCHANGED <<reroutes, now, rr>>
  /\ rq' = Tail(rq)
  /\ rpc' = NextClient
  /\ UNCHANGED <<envVars, optimized_routes, nchanges, off_counts, chk,
                 prevOff, pubVars, funVars, supVars>>

----------------------------------------------------------------------------
\* The collaborators that own the routing process's inputs

Stops == {"S100"}
Unavailable == [shape |-> "none", a |-> 0, b |-> 0]
Pair(a, b) == [shape |-> "pair", a |-> a, b |-> b]
NoProfile == [present |-> FALSE, seconds |-> 0]


\* astar/main.py routes the client to its POI and saves the path
EnvAstar(c) ==
  /\ IsActive(c)
  /\ poi[c] # NULL
  /\ astar_routes[c][poi[c]] # AstarRow(poi[c])
  /\ astar_routes' = [astar_routes EXCEPT ![c][poi[c]] = AstarRow(poi[c])]
  /\ UNCHANGED <<active, poi, mapf_routes, departures, lstm, top_routes,
                 switch_profile, dbVars, watcherVars, pubVars, funVars, supVars>>

\* mapf/main.py wraps the latest A* path as a leg to the boarding stop
EnvMapf(c) ==
  /\ IsActive(c)
  /\ poi[c] # NULL
  /\ astar_routes[c][poi[c]] = AstarRow(poi[c])
  /\ ~mapf_routes[c][poi[c]].present
  /\ mapf_routes' = [mapf_routes EXCEPT ![c][poi[c]] = MapfRow(poi[c])]
  /\ UNCHANGED <<active, poi, astar_routes, departures, lstm, top_routes,
                 switch_profile, dbVars, watcherVars, pubVars, funVars, supVars>>

\* the live feed changes the best aligned departure at the stop: a departure
\* appears on time, its delay grows, it leaves the candidates
FeedStep(dep) ==
  IF dep = NoDep THEN Dep(30, 0)
  ELSE IF dep = Dep(30, 0) THEN Dep(600, 0)
  ELSE NoDep

\* _get_top_routes(client_id): the route_ids of the client's rows in view_departure_candidates
_get_top_routes(deps) ==
  {deps[s].route_id :
     s \in {x \in DOMAIN deps : deps[x].present /\ deps[x].route_id # NULL}}

EnvDeparture(c) ==
  /\ IsActive(c)
  /\ \E s \in Stops :
       departures' = [departures EXCEPT ![c][s] = FeedStep(departures[c][s])]
  /\ top_routes' = [top_routes EXCEPT ![c] = _get_top_routes(departures'[c])]
  /\ UNCHANGED <<active, poi, astar_routes, mapf_routes, lstm,
                 switch_profile, dbVars, watcherVars, pubVars, funVars, supVars>>

----------------------------------------------------------------------------
\* The routing process with one active client

PubIdle ==
  /\ rows = {} /\ seen = {} /\ pq = <<>> /\ sent = <<>> /\ failed = {}
  /\ pclock = 0

FunIdle == fin = NULL /\ fout = NULL

\* the loops of routing/main.py before run_routing_engine has started them
SupIdle ==
  /\ _stop = FALSE
  /\ mpc = "wait"
  /\ ppc = "top"
  /\ pbackoff = 0
  /\ plaunch = <<>>
  /\ wk = [c \in Clients |-> "none"]
  /\ lpc = "top"
  /\ lbackoff = 0
  /\ fails = 0

RoutingIdle ==
  /\ astar_routes = [c \in Clients |-> [d \in Dests |-> NoAstar]]
  /\ mapf_routes = [c \in Clients |-> [d \in Dests |-> NoMapf]]
  /\ departures = [c \in Clients |-> [s \in Stops |-> NoDep]]
  /\ top_routes = [c \in Clients |-> {}]
  /\ switch_profile = [c \in Clients |-> NoProfile]
  /\ optimized_routes = {}
  /\ reroutes = {}
  /\ now = 1
  /\ off_counts = [c \in Clients |-> 0]
  /\ rq = <<>>
  /\ rpc = "sleep"
  /\ chk = NoChk
  /\ rr = NoRr
  /\ prevOff = [c \in Clients |-> FALSE]
  /\ nchanges = [c \in Clients |-> 0]

Init ==
  /\ active = <<"c1">>
  /\ lstm \in {Unavailable, Pair(30, 70)}
  /\ poi \in {[c \in Clients |-> IF c = "c1" THEN d ELSE NULL] : d \in {NULL, "D1"}}
  /\ RoutingIdle
  /\ PubIdle
  /\ FunIdle
  /\ SupIdle

Next ==
  \/ \E c \in Clients : ProcessClient(c)
  \/ RerouteTick
  \/ RerouteCheck
  \/ RerouteBefore
  \/ RerouteEval
  \/ RerouteCommit
  \/ RerouteAfter
  \/ \E c \in Clients : EnvAstar(c)
  \/ \E c \in Clients : EnvMapf(c)
  \/ \E c \in Clients : EnvDeparture(c)

Spec == Init /\ [][Next]_vars

----------------------------------------------------------------------------
\* reroute._needs_reroute_for_gtfs on its own: the inputs are drawn in the
\* initial state and one step applies the function

GtfsChoices ==
  {NoChoice} \cup
  {[present |-> TRUE, segment_type |-> s, stop_id |-> st,
    path_wkt |-> Wkt(RoadPath("D1"))] :
     s \in {"direct", "multimodal", "fallback"}, st \in {NULL, "", "S100"}}

GtfsDeps ==
  {NoDep} \cup {Dep(dl, ag) : dl \in {0, 180, 181, 600}, ag \in {-30, 45, 46}}

NoOut == [done |-> FALSE, fire |-> FALSE, reason |-> ""]

PlannerIdle ==
  /\ active = <<>>
  /\ lstm = Unavailable
  /\ poi = [c \in Clients |-> NULL]

InitGtfs ==
  /\ PlannerIdle
  /\ RoutingIdle
  /\ PubIdle
  /\ fin \in [choice : GtfsChoices, has : BOOLEAN, dep : GtfsDeps]
  /\ fout = NoOut
  /\ SupIdle

GtfsCall ==
  /\ ~fout.done
  /\ LET res == _needs_reroute_for_gtfs(fin.choice, fin.has, fin.dep)
     IN fout' = [done |-> TRUE, fire |-> res.fire, reason |-> res.reason]
  /\ UNCHANGED <<envVars, dbVars, watcherVars, pubVars, fin, supVars>>

NextGtfs == GtfsCall

SpecGtfs == InitGtfs /\ [][NextGtfs]_vars

----------------------------------------------------------------------------
\* producer/producer_out.py: publish_results

Variants == {"direct", "S100"}    \* stop_id of rows that share a key

\* r["created_at"].isoformat(); the query's WHERE clause leaves no NULL created_at
Iso(t) == ToString(t)

\* key = (client_id, session_id, created_at_iso)
KeyOf(r) == <<r.client_id, r.session_id, Iso(r.created_at)>>

\* the payload handed to client.publish
Payload(r) == [client_id |-> r.client_id, session_id |-> r.session_id,
               stop_id |-> r.stop_id, timestamp |-> Iso(r.created_at)]

\* the dedup set left as it was
SeenAddDropped(s, key) == s

\* _seen.add(key)
SeenAdd(s, key) == s \cup {key}

\* the rows of S in the orders ORDER BY created_at DESC may return them
RECURSIVE OrderedDesc(_)
OrderedDesc(S) ==
  IF S = {} THEN {<<>>}
  ELSE LET top == {r \in S : \A q \in S : q.created_at <= r.created_at}
       IN UNION {{<<r>> \o rest : rest \in OrderedDesc(S \ {r})} : r \in top}

\* the core writes a chosen route or a reroute event stamped NOW()
PubWrite ==
  /\ \E v \in Variants :
       rows' = rows \cup {[client_id |-> "c1", session_id |-> 1, stop_id |-> v,
                           created_at |-> pclock]}
  /\ rows' # rows
  /\ UNCHANGED <<envVars, dbVars, watcherVars, seen, pq, sent, failed, pclock,
                 funVars, supVars>>

\* time passes: rows older than the freshness window leave the query result
PubClock ==
  /\ pclock < MaxPubTicks * FRESH_SECONDS
  /\ pclock' = pclock + FRESH_SECONDS
  /\ rows' = {r \in rows : r.created_at >= pclock' - FRESH_SECONDS}
  /\ UNCHANGED <<envVars, dbVars, watcherVars, seen, pq, sent, failed, funVars, supVars>>

\* rows = fetch_optimized_route() at the top of the while loop
PubPoll ==
  /\ pq = <<>>
  /\ rows # {}
  /\ pq' \in OrderedDesc(rows)
  /\ UNCHANGED <<envVars, dbVars, watcherVars, rows, seen, sent, failed, pclock,
                 funVars, supVars>>

\* one iteration of `for r in rows`
PubRow ==
  /\ pq # <<>>
  /\ LET r == Head(pq)
         key == KeyOf(r)
     IN IF key \in seen
        THEN UNCHANGED <<seen, sent, failed>>
        ELSE /\ Len(sent) < MaxSent
             /\ seen' = SeenAdd(seen, key)
             /\ \/ /\ sent' = Append(sent, Payload(r))
                   /\ UNCHANGED failed
                \/ /\ failed' = failed \cup {key}
                   /\ UNCHANGED sent
  /\ pq' = Tail(pq)
  /\ UNCHANGED <<envVars, dbVars, watcherVars, rows, pclock, funVars, supVars>>

InitPub ==
  /\ PlannerIdle
  /\ RoutingIdle
  /\ FunIdle
  /\ SupIdle
  /\ PubIdle

NextPub ==
  \/ PubWrite
  \/ PubClock
  \/ PubPoll
  \/ PubRow

SpecPub == InitPub /\ [][NextPub]_vars

----------------------------------------------------------------------------
\* Properties of the routing process

SegmentTypes == {"direct", "multimodal", "fallback"}
Quiescent == rpc = "sleep"
\* _reroute_client has returned (its locals are those of the last call)
RerouteDone == rpc \in {"sleep", "check"} /\ rr.client # NULL
\* the step of loop_once that runs the two tests for the head client
CheckStep == rpc = "check" /\ (rpc' # rpc \/ rq' # rq)
AfterStep == rpc = "after" /\ rpc' # "after"

\* C1: optimized_routes holds at most one row per (client_id, stop_id,
\* segment_type), whatever the interleaving of the evaluations of the planner
\* and of the reroute watcher; a later write of a key replaces its row.
UniqueChosenKey ==
  \A r1, r2 \in optimized_routes :
    SameKey(r1, r2.client_id, r2.stop_id, r2.segment_type) => r1 = r2

\* two writes went to optimized_routes and it holds one row
UniqueChosenKeyWitness ==
  /\ Cardinality(optimized_routes) = 1
  /\ reroutes = {}
  /\ now = 3

ChosenRowsWellFormed ==
  \A r \in optimized_routes :
    /\ r.segment_type \in SegmentTypes
    /\ r.segment_type \in {"direct", "multimodal"} => NumVertices(r.path) >= 2

\* the content of the client's chosen row in tbl, created_at left out
Content(tbl, c) ==
  LET chosen == {r \in RowsOf(tbl, c) : r.is_chosen}
  IN IF chosen = {} THEN <<>>
     ELSE LET r == Latest(chosen)
          IN <<r.segment_type, r.stop_id, r.path, r.origin, r.destination>>

\* C4 as claimed: two successive evaluate_and_store_best_route calls with
\* unchanged external inputs leave the same chosen row content after the second
\* as after the first, and a reroute around the second call sees no change.
EvaluateIdempotent ==
  \A c \in Clients :
    LET plan1 == Evaluate(c, "L1")
        opt1 == PlanRoutes(optimized_routes, c, plan1, now)
        astar1 == PlanAstar(astar_routes, c, plan1)
        plan2 == EvaluateOn(c, "L1", astar1, opt1)
        opt2 == PlanRoutes(opt1, c, plan2, now + 1)
    IN plan1.kind # "none" =>
         /\ Content(opt1, c) = Content(opt2, c)
         /\ ~Changed(_fetch_current_choice_raw(opt1, c),
                     _fetch_current_choice_raw(opt2, c))

\* C5 as claimed: the deviation test fires exactly when the client was off-path
\* on this tick and on the previous tick at which the test ran.
DeviationFiresIffTwoOff ==
  (chk.client # NULL /\ chk.ran) => (chk.need_dev <=> (chk.off /\ chk.prev))

\* C6: after a tick on which the client is within the threshold its deviation
\* streak counter is 0, whatever it was before.
InToleranceResetsStreak ==
  (chk.client # NULL /\ chk.ran /\ ~chk.off) => off_counts[chk.client] = 0

\* an in-tolerance tick that followed an off-path tick
InToleranceResetsStreakWitness ==
  /\ chk.client # NULL /\ chk.ran /\ ~chk.off /\ chk.prev
  /\ off_counts[chk.client] = 0

\* C7: a tick is off-path only if the distance is strictly greater than 35 m
\* (direct) or 60 m (multimodal); at the threshold it is in tolerance and the
\* streak is reset.
StrictThreshold ==
  (chk.client # NULL /\ chk.ran /\ chk.dist # Inf) =>
    /\ chk.segment_type = "direct" => (chk.off <=> chk.dist > 35)
    /\ chk.segment_type = "multimodal" => (chk.off <=> chk.dist > 60)
    /\ ~chk.off => off_counts[chk.client] = 0

\* a multimodal route at exactly 60 m after an off-path tick: streak reset
StrictThresholdWitness ==
  /\ chk.client # NULL /\ chk.ran /\ chk.prev
  /\ chk.segment_type = "multimodal" /\ chk.dist = 60
  /\ ~chk.off /\ off_counts[chk.client] = 0

S3Inputs(c) ==
  /\ poi[c] = "D1"
  /\ astar_routes[c]["D1"] = AstarRow("D1")
  /\ mapf_routes[c]["D1"] = MapfRow("D1")
  /\ departures[c]["S100"] = Dep(600, 0)
  /\ lstm = Pair(30, 70)

\* C9 as claimed: when the chosen route is the multimodal route of S2 and the
\* best departure at its stop has a delay of 600 s, the reroute the watcher
\* triggers with reason delay_600s writes a reroute event row.
DelayRerouteWritesEvent ==
  (/\ RerouteDone
   /\ rr.reason = "delay_600s"
   /\ rr.before.present
   /\ rr.before.segment_type = "multimodal"
   /\ rr.before.stop_id = "S100"
   /\ S3Inputs(rr.client)) => rr.wrote

MsgKey(m) == <<m.client_id, m.session_id, m.timestamp>>
Published(k) == {i \in 1..Len(sent) : MsgKey(sent[i]) = k}

----------------------------------------------------------------------------
\* Properties of the publisher's error handling

\* C11 as claimed: a key whose publish raised is not left in the dedup set, so
\* a later poll publishes the row again: a key that is in the set after a failed
\* publish has a message.
FailedKeyUnmarked ==
  \A k \in failed : k \in seen => Published(k) # {}

----------------------------------------------------------------------------
\* routing/main.py: run_routing_engine, planner_loop, reroute_loop

Min(a, b) == IF a <= b THEN a ELSE b

\* the while condition of both loops with the test of the stop signal left out
LoopContinuesAlways(stop_set) == TRUE

\* while not _stop.is_set()
LoopContinues(stop_set) == ~stop_set

\* backoff = 2 if backoff is None else min(backoff * 2, cap)
NextBackoff(backoff, cap) ==
  IF backoff = 0 THEN BACKOFF_INITIAL ELSE Min(backoff * 2, cap)

supOther == <<envVars, dbVars, watcherVars, pubVars, funVars>>

\* the top of planner_loop's while: exit, or clients = fetch_active_clients()
PlannerTop ==
  /\ ppc = "top"
  /\ IF ~LoopContinues(_stop)
     THEN ppc' = "exit" /\ UNCHANGED plaunch
     ELSE IF active = <<>>
     THEN ppc' = "sleep_empty" /\ UNCHANGED plaunch
     ELSE ppc' = "launch" /\ plaunch' = active
  /\ UNCHANGED <<supOther, _stop, mpc, pbackoff, wk, lpc, lbackoff, fails>>

\* the for loop running the client's evaluation itself, without a thread and
\* without the try of process_client: an exception fails the tick
PlannerLaunchInline ==
  /\ ppc = "launch"
  /\ LET c == Head(plaunch)
     IN \/ /\ wk' = [wk EXCEPT ![c] = "done"]
           /\ plaunch' = Tail(plaunch)
           /\ ppc' = IF Tail(plaunch) = <<>> THEN "join" ELSE "launch"
           /\ UNCHANGED <<pbackoff, fails>>
        \/ /\ fails < MaxFails
           /\ wk' = [wk EXCEPT ![c] = "failed"]
           /\ plaunch' = <<>>
           /\ pbackoff' = NextBackoff(pbackoff, PLANNER_BACKOFF_CAP)
           /\ fails' = fails + 1
           /\ ppc' = "backoff"
  /\ UNCHANGED <<supOther, _stop, mpc, lpc, lbackoff>>

\* one iteration of `for client_id in clients`: t.start() starts the thread of
\* the client, or raises and the tick fails
PlannerLaunch ==
  /\ ppc = "launch"
  /\ LET c == Head(plaunch)
     IN \/ /\ wk' = [wk EXCEPT ![c] = "running"]
           /\ plaunch' = Tail(plaunch)
           /\ ppc' = IF Tail(plaunch) = <<>> THEN "join" ELSE "launch"
           /\ UNCHANGED <<pbackoff, fails>>
        \/ /\ fails < MaxFails
           /\ plaunch' = <<>>
           /\ pbackoff' = NextBackoff(pbackoff, PLANNER_BACKOFF_CAP)
           /\ fails' = fails + 1
           /\ ppc' = "backoff"
           /\ UNCHANGED wk
  /\ UNCHANGED <<supOther, _stop, mpc, lpc, lbackoff>>

\* for t in threads: t.join(timeout=JOIN_TIMEOUT): each join returns when the
\* thread has ended or the timeout has passed
PlannerJoin ==
  /\ ppc = "join"
  /\ ppc' = "sleep"
  /\ UNCHANGED <<supOther, _stop, mpc, pbackoff, plaunch, wk, lpc, lbackoff, fails>>

\* _stop.wait(PLANNER_SLEEP) returns; backoff = None
PlannerSleep ==
  /\ ppc = "sleep"
  /\ ppc' = "top"
  /\ pbackoff' = 0
  /\ fails' = 0
  /\ UNCHANGED <<supOther, _stop, mpc, plaunch, wk, lpc, lbackoff>>

\* no active clients: _stop.wait(PLANNER_SLEEP) returns; continue
PlannerSleepEmpty ==
  /\ ppc = "sleep_empty"
  /\ ppc' = "top"
  /\ fails' = 0
  /\ UNCHANGED <<supOther, _stop, mpc, pbackoff, plaunch, wk, lpc, lbackoff>>

\* _stop.wait(backoff) returns
PlannerBackoff ==
  /\ ppc = "backoff"
  /\ ppc' = "top"
  /\ UNCHANGED <<supOther, _stop, mpc, pbackoff, plaunch, wk, lpc, lbackoff, fails>>

\* the thread of client c: evaluate_and_store_best_route(c) returns
WorkerReturn(c) ==
  /\ wk[c] = "running"
  /\ \E loc \in Locs : Commit(c, Evaluate(c, loc))
  /\ wk' = [wk EXCEPT ![c] = "done"]
  /\ UNCHANGED <<active, poi, mapf_routes, departures, lstm, top_routes,
                 switch_profile, reroutes, watcherVars, pubVars, funVars,
                 _stop, mpc, ppc, pbackoff, plaunch, lpc, lbackoff, fails>>

\* the thread of client c: evaluate_and_store_best_route(c) raises and
\* process_client logs the error
WorkerRaise(c) ==
  /\ wk[c] = "running"
  /\ wk' = [wk EXCEPT ![c] = "failed"]
  /\ UNCHANGED <<supOther, _stop, mpc, ppc, pbackoff, plaunch, lpc, lbackoff, fails>>

\* the top of reroute_loop's while
LoopTop ==
  /\ lpc = "top"
  /\ lpc' = IF LoopContinues(_stop) THEN "tick" ELSE "exit"
  /\ UNCHANGED <<supOther, _stop, mpc, ppc, pbackoff, plaunch, wk, lbackoff, fails>>

\* reroute.loop_once() returns, or raises and the loop backs off
LoopTick ==
  /\ lpc = "tick"
  /\ \/ lpc' = "sleep" /\ UNCHANGED lbackoff
     \/ /\ lbackoff' = NextBackoff(lbackoff, REROUTE_BACKOFF_CAP)
        /\ lpc' = "backoff"
  /\ UNCHANGED <<supOther, _stop, mpc, ppc, pbackoff, plaunch, wk, fails>>

\* _stop.wait(REROUTE_TICK) returns; backoff = None
LoopSleep ==
  /\ lpc = "sleep"
  /\ lpc' = "top"
  /\ lbackoff' = 0
  /\ UNCHANGED <<supOther, _stop, mpc, ppc, pbackoff, plaunch, wk, fails>>

\* _stop.wait(backoff) returns
LoopBackoff ==
  /\ lpc = "backoff"
  /\ lpc' = "top"
  /\ UNCHANGED <<supOther, _stop, mpc, ppc, pbackoff, plaunch, wk, lbackoff, fails>>

\* _handle_sigterm: SIGTERM or SIGINT arrives
Signal ==
  /\ mpc = "wait"
  /\ ~_stop
  /\ _stop' = TRUE
  /\ UNCHANGED <<supOther, mpc, ppc, pbackoff, plaunch, wk, lpc, lbackoff, fails>>

\* while not _stop.is_set(): _stop.wait(1)
MainWake ==
  /\ mpc = "wait"
  /\ _stop
  /\ mpc' = "join_planner"
  /\ UNCHANGED <<supOther, _stop, ppc, pbackoff, plaunch, wk, lpc, lbackoff, fails>>

\* planner.join(timeout=5); reloop.join(timeout=5); return
MainJoin ==
  /\ mpc \in {"join_planner", "join_reroute"}
  /\ mpc' = IF mpc = "join_planner" THEN "join_reroute" ELSE "returned"
  /\ UNCHANGED <<supOther, _stop, ppc, pbackoff, plaunch, wk, lpc, lbackoff, fails>>

\* clients become active or inactive in view_active_clients_geodata
EnvActive ==
  /\ active' = IF active = <<>> THEN <<"c1", "c2">> ELSE <<>>
  /\ UNCHANGED <<poi, astar_routes, mapf_routes, departures, lstm, top_routes,
                 switch_profile, dbVars, watcherVars, pubVars, funVars, supVars>>

\* planner_loop and its process_client threads
InitPlanner ==
  /\ active \in {<<>>, <<"c1", "c2">>}
  /\ lstm = Unavailable
  /\ poi \in {[c \in Clients |-> IF c = "c1" THEN d ELSE NULL] : d \in {NULL, "D1"}}
  /\ RoutingIdle
  /\ PubIdle
  /\ FunIdle
  /\ SupIdle

PlannerStep ==
  \/ PlannerTop
  \/ PlannerLaunch
  \/ PlannerJoin
  \/ PlannerSleep
  \/ PlannerSleepEmpty
  \/ PlannerBackoff

WorkerStep(c) == WorkerReturn(c) \/ WorkerRaise(c)

NextPlanner ==
  \/ PlannerStep
  \/ \E c \in Clients : WorkerStep(c)
  \/ EnvActive

\* every thread that can take a step eventually takes one
SpecPlanner ==
  /\ InitPlanner
  /\ [][NextPlanner]_vars
  /\ WF_vars(PlannerStep)
  /\ \A c \in Clients : WF_vars(WorkerStep(c))

\* run_routing_engine with both loops and the stop signal, one active client
\* or none
InitStop ==
  /\ active \in {<<>>, <<"c1">>}
  /\ lstm = Unavailable
  /\ poi = [c \in Clients |-> NULL]
  /\ RoutingIdle
  /\ PubIdle
  /\ FunIdle
  /\ SupIdle

LoopStep ==
  \/ LoopTop
  \/ LoopTick
  \/ LoopSleep
  \/ LoopBackoff

MainStep == MainWake \/ MainJoin

NextStop ==
  \/ PlannerStep
  \/ \E c \in Clients : WorkerStep(c)
  \/ LoopStep
  \/ MainStep
  \/ Signal

SpecStop ==
  /\ InitStop
  /\ [][NextStop]_vars
  /\ WF_vars(PlannerStep)
  /\ WF_vars(LoopStep)
  /\ WF_vars(MainStep)
  /\ \A c \in Clients : WF_vars(WorkerStep(c))

----------------------------------------------------------------------------
\* Properties of the planner loop

\* C12: an exception raised while planning one client changes nothing but that
\* client's own thread: the threads of the other clients, the clients still to
\* be launched and the planner's position and backoff are as before; every
\* started thread runs to its end; planner_loop does not exit without the stop
\* signal and goes from the join on to its next tick.
WorkerFailureIsolated ==
  /\ [][\A c \in Clients :
          (wk[c] # "failed" /\ wk'[c] = "failed") =>
            /\ \A d \in Clients \ {c} : wk'[d] = wk[d]
            /\ ppc' = ppc /\ plaunch' = plaunch /\ pbackoff' = pbackoff]_vars
  /\ \A c \in Clients : (wk[c] = "running") ~> (wk[c] \in {"done", "failed"})
  /\ [](ppc = "exit" => _stop)
  /\ (ppc = "join") ~> (ppc = "top")

\* a tick in which the thread of c1 failed and the thread of c2 completed
WorkerFailureIsolatedWitness ==
  /\ ppc = "sleep"
  /\ wk["c1"] = "failed"
  /\ wk["c2"] = "done"

----------------------------------------------------------------------------
\* The reroute watcher with two active clients

InitWatch ==
  /\ active = <<"c1", "c2">>
  /\ lstm = Unavailable
  /\ poi \in {[c \in Clients |-> IF c = "c1" THEN "D1" ELSE d] : d \in {NULL, "D1"}}
  /\ RoutingIdle
  /\ PubIdle
  /\ FunIdle
  /\ SupIdle

NextWatch ==
  \/ \E c \in Clients : ProcessClient(c)
  \/ RerouteTick
  \/ RerouteCheck
  \/ RerouteBefore
  \/ RerouteEval
  \/ RerouteCommit
  \/ RerouteAfter

SpecWatch == InitWatch /\ [][NextWatch]_vars

\* C13 as claimed: when processing one client raises in a watcher tick, no
\* client after it in the tick's list is left unprocessed.
WatcherFailureContained ==
  chk.raised => chk.skipped = 0

----------------------------------------------------------------------------
\* Properties of the shutdown

\* C14: once the stop signal is set neither loop starts another tick (from the
\* top of its while it can only exit), run_routing_engine returns only after
\* the signal, and the signal leads to both loops having exited and
\* run_routing_engine having returned after its two joins.
StopEndsBothLoops ==
  /\ [][_stop => /\ (ppc = "top" => ppc' \in {"top", "exit"})
                 /\ (lpc = "top" => lpc' \in {"top", "exit"})]_vars
  /\ [](mpc # "wait" => _stop)
  /\ _stop ~> (ppc = "exit" /\ lpc = "exit" /\ mpc = "returned")

\* the engine has stopped after the planner planned the client and the reroute
\* loop backed off at least once
StopEndsBothLoopsWitness ==
  /\ _stop
  /\ ppc = "exit" /\ lpc = "exit" /\ mpc = "returned"
  /\ wk["c1"] = "done"
  /\ lbackoff > 0

----------------------------------------------------------------------------
\* Properties of the planner's backoff

\* C15 as claimed: the wait after a failed planner tick is 2 s doubled once for
\* each failed tick before it since the last tick that completed without error
\* (a tick that found no active clients included), and at most 60 s.
BackoffFollowsFailures ==
  ppc = "backoff" => pbackoff = Min(2 ^ fails, PLANNER_BACKOFF_CAP)

----------------------------------------------------------------------------
\* The planner with a client whose selected POI changes

\* view_combined_pois ranks another POI first for the client
EnvPoi(c) ==
  /\ IsActive(c)
  /\ poi[c] # NULL
  /\ poi' = [poi EXCEPT ![c] = IF @ = "D1" THEN "D2" ELSE "D1"]
  /\ UNCHANGED <<active, astar_routes, mapf_routes, departures, lstm, top_routes,
                 switch_profile, dbVars, watcherVars, pubVars, funVars, supVars>>

InitDest ==
  /\ active = <<"c1">>
  /\ lstm = Unavailable
  /\ poi = [c \in Clients |-> IF c = "c1" THEN "D1" ELSE NULL]
  /\ RoutingIdle
  /\ PubIdle
  /\ FunIdle
  /\ SupIdle

NextDest ==
  \/ \E c \in Clients : ProcessClient(c)
  \/ \E c \in Clients : EnvPoi(c)
  \/ \E c \in Clients : EnvAstar(c)
  \/ \E c \in Clients : EnvMapf(c)
  \/ \E c \in Clients : EnvDeparture(c)

SpecDest == InitDest /\ [][NextDest]_vars

\* C16 as claimed: every row that a call of evaluate_and_store_best_route
\* inserts or updates in optimized_routes has the client's selected POI as its
\* destination, also when a row with the same key existed before the call.
StoredDestinationIsPoi ==
  [][\A r \in optimized_routes' \ optimized_routes :
       r.destination = poi[r.client_id]]_vars

----------------------------------------------------------------------------
\* routing/selector.py: one call of evaluate_and_store_best_route for a client
\* with a selected POI, over drawn candidates, departure, model output, usage
\* history and switching profile

SelAstar == {NoAstar, AstarRow("D1"), SeededAstarRow("L1")}

SelMapf ==
  {NoMapf} \cup
  {[MapfRow("D1") EXCEPT !.distance = x] : x \in {399, 400, 401, 450, 800}}

SelDeps ==
  {NoDep} \cup {Dep(dl, 0) : dl \in {-30, 0, 30, 60, 61, 600}}
          \cup {[Dep(30, 0) EXCEPT !.route_id = NULL]}

SelLstm ==
  {Unavailable, [shape |-> "other", a |-> 0, b |-> 0], Pair(30, 70), Pair(70, 30),
   Pair(50, 50), [shape |-> "scalar", a |-> 70, b |-> 0]}

SelProfiles ==
  {NoProfile, [present |-> TRUE, seconds |-> 120], [present |-> TRUE, seconds |-> 121]}

\* a row written by an earlier call for the client
HistRow(stop, seg, t) ==
  [client_id |-> "c1", stop_id |-> stop, destination |-> "D1",
   path |-> Wkt(RoadPath("D1")), segment_type |-> seg, is_chosen |-> TRUE,
   origin |-> "L1", created_at |-> t]

\* usage histories: none, direct only, one of each, one direct and four
\* multimodal rows (ratios 0.2 and 0.8)
SelHistory ==
  {{},
   {HistRow("direct", "direct", 1)},
   {HistRow("direct", "direct", 0), HistRow("S100", "multimodal", 1)},
   {HistRow("direct", "direct", -3), HistRow("S101", "multimodal", -2),
    HistRow("S102", "multimodal", -1), HistRow("S103", "multimodal", 0),
    HistRow("S100", "multimodal", 1)}}

NoSel == [done |-> FALSE, plan |-> NoPlan, astar |-> NoAstar, loc |-> NULL,
          ratios |-> [a |-> 1, m |-> 1, den |-> 2]]

\* the drawn inputs of the call, the selected POI aside
SelDrawn ==
  /\ active = <<"c1">>
  /\ \E a \in SelAstar, m \in SelMapf :
       /\ m.present => a = AstarRow("D1")
       /\ astar_routes = [c \in Clients |-> [d \in Dests |->
                            IF c = "c1" /\ d = "D1" THEN a ELSE NoAstar]]
       /\ mapf_routes = [c \in Clients |-> [d \in Dests |->
                           IF c = "c1" /\ d = "D1" THEN m ELSE NoMapf]]
  /\ \E dp \in SelDeps :
       departures = [c \in Clients |-> [s \in Stops |->
                       IF c = "c1" THEN dp ELSE NoDep]]
  /\ top_routes = [c \in Clients |-> _get_top_routes(departures[c])]
  /\ lstm \in SelLstm
  /\ \E pr \in SelProfiles :
       switch_profile = [c \in Clients |-> IF c = "c1" THEN pr ELSE NoProfile]
  /\ optimized_routes \in SelHistory
  /\ reroutes = {}
  /\ now = 2
  /\ off_counts = [c \in Clients |-> 0]
  /\ rq = <<>>
  /\ rpc = "sleep"
  /\ chk = NoChk
  /\ rr = NoRr
  /\ prevOff = [c \in Clients |-> FALSE]
  /\ nchanges = [c \in Clients |-> 0]
  /\ PubIdle
  /\ fin = NULL
  /\ fout = NoSel
  /\ SupIdle

InitSel ==
  /\ poi = [c \in Clients |-> IF c = "c1" THEN "D1" ELSE NULL]
  /\ SelDrawn

\* evaluate_and_store_best_route("c1"), with the A* row, the latest location
\* and the usage ratios it read
SelCall ==
  /\ ~fout.done
  /\ \E loc \in Locs :
       /\ Commit("c1", Evaluate("c1", loc))
       /\ fout' = [done |-> TRUE, plan |-> Evaluate("c1", loc),
                   astar |-> astar_routes["c1"]["D1"], loc |-> loc,
                   ratios |-> get_route_usage_ratios(optimized_routes, "c1")]
  /\ UNCHANGED <<active, poi, mapf_routes, departures, lstm, top_routes,
                 switch_profile, reroutes, watcherVars, pubVars, fin, supVars>>

NextSel == SelCall

SpecSel == InitSel /\ [][NextSel]_vars

\* the inputs of the call and the client's chosen row
SelA == fout.astar
SelM == mapf_routes["c1"]["D1"]
SelD == departures["c1"]["S100"]
SelRow == _fetch_current_choice(optimized_routes, "c1")

\* the call wrote the row (c1, stop, seg) with the path g and it is the chosen row
SelWrote(stop, seg, g) ==
  /\ fout.plan.stop_id = stop /\ fout.plan.segment_type = seg /\ fout.plan.path = g
  /\ \E r \in optimized_routes :
       /\ SameKey(r, "c1", stop, seg)
       /\ r.is_chosen /\ r.path = Wkt(g) /\ r.created_at = now - 1
  /\ SelRow.present /\ SelRow.stop_id = stop /\ SelRow.segment_type = seg
  /\ SelRow.path_wkt = Wkt(g)

----------------------------------------------------------------------------
\* Properties of the selector

\* C17: when an A* route to the POI exists and there is no multimodal candidate
\* or no aligned departure at the candidate's stop, the call writes the chosen
\* row direct / "direct" with the A* path, for every model output, usage
\* history and switching profile.
DirectWithoutAlignedDeparture ==
  (fout.done /\ SelA.present /\ (~SelM.present \/ ~SelD.present)) =>
    SelWrote("direct", "direct", Loads(SelA.path))

\* a call with a multimodal candidate, no aligned departure, a model that
\* scores multimodal higher and a usage history of mostly multimodal rows
DirectWithoutAlignedDepartureWitness ==
  /\ fout.done
  /\ SelA = AstarRow("D1") /\ SelM.present /\ ~SelD.present
  /\ lstm = Pair(30, 70)
  /\ fout.ratios.m = 4
  /\ SelWrote("direct", "direct", RoadPath("D1"))


\* C18: on the heuristic path (no usable model output), with both candidates
\* and an aligned departure, the call writes the direct row exactly when
\* astar_dist < mapf_dist + 100 + max(0, delay); at equality and above it
\* writes the multimodal row with the candidate's stop_id.
HeuristicRule ==
  (fout.done /\ SelA.present /\ SelM.present /\ SelD.present
     /\ lstm.shape \in {"none", "other"}) =>
    IF SelA.distance < SelM.distance + 100
                         + (IF SelD.delay > 0 THEN SelD.delay ELSE 0)
    THEN SelWrote("direct", "direct", Loads(SelA.path))
    ELSE SelWrote(SelM.stop_id, "multimodal", Loads(SelM.path))

\* the equality case: A* 500 m, multimodal 400 m, delay 0, model missing
HeuristicRuleWitness ==
  /\ fout.done
  /\ lstm = Unavailable
  /\ SelA.distance = 500 /\ SelM.present /\ SelM.distance = 400
  /\ SelD.present /\ SelD.delay = 0
  /\ SelWrote("S100", "multimodal", RoadPath("D1"))


\* the blended scores of the call, nudge included
SelBlend ==
  _blend_with_history(_predict_with_lstm(lstm), fout.ratios, SelD.route_id,
                      top_routes["c1"])

\* C19: on the model path, when the blended scores differ by less than 0.10 of
\* their sum, the delay is at most 60 s and the profile's avg_switch_seconds is
\* at most 120 s, the call writes the multimodal row, also when the blended A*
\* score is the larger one; in every other case it writes the row of the
\* larger blended score (direct unless multimodal is strictly larger).
TieBreakerRule ==
  (fout.done /\ SelA.present /\ SelM.present /\ SelD.present
     /\ lstm.shape \in {"pair", "scalar"}) =>
    LET b == SelBlend
        diff == IF b.mapf >= b.astar THEN b.mapf - b.astar ELSE b.astar - b.mapf
        near == 100 * diff < 10 * (b.astar + b.mapf)
        pr == switch_profile["c1"]
        forced == near /\ SelD.delay <= 60 /\ pr.present /\ pr.seconds <= 120
    IN IF forced \/ b.mapf > b.astar
       THEN SelWrote(SelM.stop_id, "multimodal", Loads(SelM.path))
       ELSE SelWrote("direct", "direct", Loads(SelA.path))

\* both boundaries at once: the blended A* score is the larger one, within the
\* margin, the delay is exactly 60 s and avg_switch_seconds exactly 120 s
TieBreakerRuleWitness ==
  /\ fout.done
  /\ SelA.present /\ SelM.present /\ SelD.present
  /\ lstm = Pair(50, 50)
  /\ SelBlend.astar > SelBlend.mapf
  /\ 100 * (SelBlend.astar - SelBlend.mapf) < 10 * (SelBlend.astar + SelBlend.mapf)
  /\ SelD.delay = 60
  /\ switch_profile["c1"].seconds = 120
  /\ SelWrote("S100", "multimodal", RoadPath("D1"))


\* scenario S2: A* 500 m, multimodal candidate at S100 800 m, departure on route
\* 14 with delay 30 s, usage ratios (0.2, 0.8), model output [0.3, 0.7]
S2Inputs ==
  /\ fout.done
  /\ SelA = AstarRow("D1") /\ SelM = MapfRow("D1") /\ SelD = Dep(30, 0)
  /\ fout.ratios = [a |-> 1, m |-> 4, den |-> 5]
  /\ lstm = Pair(30, 70)

\* the blend of the call's scores and ratios without a favoured route
SelBlendNoNudge ==
  _blend_with_history(_predict_with_lstm(lstm), fout.ratios, NULL, {})

\* C20 as claimed: in S2 the blended multimodal score before the nudge is
\* 0.15*0.8 + 0.85*0.7 = 0.715 and the row written is multimodal at S100.
S2BlendAsClaimed ==
  S2Inputs =>
    /\ 1000 * SelBlendNoNudge.mapf
         = 715 * (SelBlendNoNudge.astar + SelBlendNoNudge.mapf)
    /\ SelWrote("S100", "multimodal", RoadPath("D1"))

\* C20 amended: in S2 the model output is shifted by its minimum to [0, 0.4]
\* and normalised to [0, 1], the blended multimodal score before the nudge is
\* 0.15*0.8 + 0.85*1.0 = 0.97 and the row written is multimodal at S100.
S2BlendShifted ==
  S2Inputs =>
    /\ 100 * SelBlendNoNudge.mapf
         = 97 * (SelBlendNoNudge.astar + SelBlendNoNudge.mapf)
    /\ SelWrote("S100", "multimodal", RoadPath("D1"))

\* the call of scenario S2 has written the multimodal row at S100
S2BlendShiftedWitness ==
  /\ S2Inputs
  /\ SelWrote("S100", "multimodal", RoadPath("D1"))

----------------------------------------------------------------------------
\* The selector called for a client without a combined POI

InitNoPoi ==
  /\ poi = [c \in Clients |-> NULL]
  /\ SelDrawn

SpecNoPoi == InitNoPoi /\ [][NextSel]_vars

\* C21: the call for a client without a combined POI leaves optimized_routes,
\* astar_routes and reroutes as they were.
NoPoiWritesNothing ==
  [][(poi["c1"] = NULL /\ fout'.done) =>
       UNCHANGED <<optimized_routes, astar_routes, reroutes>>]_vars

\* the call has returned for a client without a POI that has an A* row, a
\* multimodal candidate and stored rows from the time it had one
NoPoiWritesNothingWitness ==
  /\ fout.done
  /\ poi["c1"] = NULL
  /\ fout.plan = NoPlan
  /\ SelA.present /\ SelM.present
  /\ optimized_routes # {}


----------------------------------------------------------------------------
\* Properties of the selector's fallback

\* the call seeded the minimal A* row for (c1, D1) and wrote the fallback row
SelFellBack ==
  /\ astar_routes["c1"]["D1"] =
       [present |-> TRUE, path |-> NULL, distance |-> 0, origin |-> fout.loc]
  /\ fout.plan.kind = "fallback"
  /\ SelWrote("direct", "fallback", <<>>)

\* C22 as claimed: whenever a combined POI exists and no A* route to it exists,
\* the call seeds the A* row and writes the chosen row fallback / "direct" with
\* the empty polyline.
FallbackWhenNoAstar ==
  (fout.done /\ ~SelA.present) => SelFellBack

\* C22 amended: with a combined POI and no A* route to it, the call seeds the
\* A* row and writes the fallback row when the client has a latest location,
\* and writes nothing when it has none.
FallbackNeedsLocation ==
  /\ []((fout.done /\ ~SelA.present /\ fout.loc # NULL) => SelFellBack)
  /\ [][(fout'.done /\ ~fout'.astar.present /\ fout'.loc = NULL) =>
          UNCHANGED <<optimized_routes, astar_routes, reroutes>>]_vars

\* a call with a latest location and no A* route has seeded the row and
\* written the fallback row beside the rows stored earlier
FallbackNeedsLocationWitness ==
  /\ fout.done /\ ~SelA.present /\ fout.loc = "L1"
  /\ SelFellBack
  /\ Cardinality(optimized_routes) > 1


----------------------------------------------------------------------------
\* Properties of the stored rows

\* C23: every direct row of optimized_routes has the sentinel stop_id "direct",
\* and every multimodal row has a non-null stop_id that is the stop of a
\* multimodal candidate of its client.
StopIdBySegment ==
  \A r \in optimized_routes :
    /\ r.segment_type = "direct" => r.stop_id = "direct"
    /\ r.segment_type = "multimodal" =>
         /\ r.stop_id # NULL
         /\ r.stop_id # "direct"
         /\ \E d \in Dests :
              /\ mapf_routes[r.client_id][d].present
              /\ mapf_routes[r.client_id][d].stop_id = r.stop_id

\* the client has a direct row and a multimodal row
StopIdBySegmentWitness ==
  /\ \E r \in optimized_routes : r.segment_type = "direct" /\ r.stop_id = "direct"
  /\ \E r \in optimized_routes : r.segment_type = "multimodal" /\ r.stop_id = "S100"


AtMostOneChosen ==
  \A c \in Clients :
    Cardinality({r \in RowsOf(optimized_routes, c) : r.is_chosen}) <= 1


----------------------------------------------------------------------------
\* astar/pathfinder.py: a_star on a drawn road graph. The nodes lie on a line at
\* unit spacing, so the geodesic distance of two nodes is the difference of
\* their numbers; every edge is at least as long as the distance of its ends.
\* fin is the call's input, fout the state of the search.

Nodes == 1 .. 4
NoNode == 0
RoadPairs == {p \in Nodes \X Nodes : p[1] < p[2]}
NoEdge == [present |-> FALSE, length |-> 0]
Edge(l) == [present |-> TRUE, length |-> l]
EdgeLengths == {1, 5, 10}

\* graph_from_bbox: the edges u -> v with u < v, one-way or two-way streets
RoadGraphs ==
  {g \in [RoadPairs -> {NoEdge} \cup {Edge(l) : l \in EdgeLengths}] :
     \A p \in RoadPairs : g[p].present => g[p].length >= p[2] - p[1]}

AstarInputs ==
  [edges : RoadGraphs, twoway : BOOLEAN, start : {1}, goal : {1, 4}]

\* graph.edges[u, v, 0], as a record
EdgeOf(in, u, v) ==
  IF u < v THEN in.edges[<<u, v>>]
  ELSE IF in.twoway /\ v < u THEN in.edges[<<v, u>>]
  ELSE NoEdge

\* graph.neighbors(u)
Neighbors(in, u) == {v \in Nodes : EdgeOf(in, u, v).present}

\* heuristic(node, goal, graph): the geodesic distance of the two nodes
heuristic(node, goal) == Abs(node - goal)

\* the search before the while loop: lines 19-25
AstarStart(in) ==
  [pc |-> "loop",
   open |-> [n \in Nodes |-> IF n = in.start
                            THEN [queued |-> TRUE, f |-> 0]
                            ELSE [queued |-> FALSE, f |-> 0]],
   g_score |-> [n \in Nodes |-> IF n = in.start THEN 0 ELSE Inf],
   came_from |-> [n \in Nodes |-> NoNode],
   found |-> FALSE,
   path |-> <<>>]

\* heapq.heappop: the least (priority, node) tuple of the heap
HeapMin(open) ==
  CHOOSE n \in Nodes :
    /\ open[n].queued
    /\ \A m \in Nodes :
         open[m].queued =>
           \/ open[n].f < open[m].f
           \/ (open[n].f = open[m].f /\ n <= m)

RECURSIVE PathBack(_, _, _)
\* the nodes from current back along came_from, first node last; at most k
\* links are followed
PathBack(came_from, current, k) ==
  IF came_from[current] = NoNode \/ k = 0 THEN <<current>>
  ELSE <<current>> \o PathBack(came_from, came_from[current], k - 1)

Reverse(s) == [i \in 1 .. Len(s) |-> s[Len(s) + 1 - i]]

\* reconstruct_path(came_from, current)
reconstruct_path(came_from, current) ==
  Reverse(PathBack(came_from, current, Cardinality(Nodes)))

\* the relaxation without the came_from[neighbor] = current bookkeeping
ExpandNoCameFrom(in, st, current) ==
  LET popped == [st.open EXCEPT ![current].queued = FALSE]
      better(v) == /\ v \in Neighbors(in, current)
                   /\ st.g_score[current] + EdgeOf(in, current, v).length
                        < st.g_score[v]
      tentative(v) == st.g_score[current] + EdgeOf(in, current, v).length
  IN [st EXCEPT
        !.open = [v \in Nodes |->
                    IF better(v) /\ ~popped[v].queued
                    THEN [queued |-> TRUE, f |-> tentative(v) + heuristic(v, in.goal)]
                    ELSE popped[v]],
        !.g_score = [v \in Nodes |-> IF better(v) THEN tentative(v) ELSE @[v]]]

\* the for loop over graph.neighbors(current), lines 32-42: a neighbor whose
\* score improves is pushed only if it is not in the heap already, so a queued
\* neighbor keeps the priority it was pushed with
Expand(in, st, current) ==
  LET popped == [st.open EXCEPT ![current].queued = FALSE]
      better(v) == /\ v \in Neighbors(in, current)
                   /\ st.g_score[current] + EdgeOf(in, current, v).length
                        < st.g_score[v]
      tentative(v) == st.g_score[current] + EdgeOf(in, current, v).length
  IN [st EXCEPT
        !.open = [v \in Nodes |->
                    IF better(v) /\ ~popped[v].queued
                    THEN [queued |-> TRUE, f |-> tentative(v) + heuristic(v, in.goal)]
                    ELSE popped[v]],
        !.g_score = [v \in Nodes |-> IF better(v) THEN tentative(v) ELSE @[v]],
        !.came_from = [v \in Nodes |-> IF better(v) THEN current ELSE @[v]]]

\* one iteration of `while open_list`, or the return None after the loop
AstarIter ==
  /\ fout.pc = "loop"
  /\ IF \A n \in Nodes : ~fout.open[n].queued
     THEN fout' = [fout EXCEPT !.pc = "done"]
     ELSE LET current == HeapMin(fout.open)
          IN IF current = fin.goal
             THEN fout' = [fout EXCEPT !.pc = "done", !.found = TRUE,
                                       !.open[current].queued = FALSE,
                                       !.path = reconstruct_path(fout.came_from,
                                                                 current)]
             ELSE fout' = Expand(fin, fout, current)
  /\ UNCHANGED <<envVars, dbVars, watcherVars, pubVars, fin, supVars>>

InitAstar ==
  /\ PlannerIdle
  /\ RoutingIdle
  /\ PubIdle
  /\ SupIdle
  /\ fin \in AstarInputs
  /\ fout = AstarStart(fin)

NextAstar == AstarIter

\* the call runs until it returns
SpecAstar == InitAstar /\ [][NextAstar]_vars /\ WF_vars(AstarIter)


----------------------------------------------------------------------------
\* Properties of a_star

RECURSIVE MinCost(_, _, _)
\* the least total length of a walk of at most k edges from in.start to n
MinCost(in, n, k) ==
  IF k = 0 THEN (IF n = in.start THEN 0 ELSE Inf)
  ELSE LET via == {MinCost(in, u, k - 1) + EdgeOf(in, u, n).length :
                     u \in {x \in Nodes : /\ EdgeOf(in, x, n).present
                                          /\ MinCost(in, x, k - 1) < Inf}}
           all == via \cup {MinCost(in, n, k - 1)}
       IN CHOOSE c \in all : \A d \in all : c <= d

\* the length of the shortest path from start to goal, Inf if there is none
ShortestLength(in) == MinCost(in, in.goal, Cardinality(Nodes) - 1)

FollowsEdges(in, p) ==
  \A i \in 1 .. Len(p) - 1 : EdgeOf(in, p[i], p[i + 1]).present

RECURSIVE PathLength(_, _)
PathLength(in, p) ==
  IF Len(p) <= 1 THEN 0
  ELSE EdgeOf(in, p[1], p[2]).length + PathLength(in, Tail(p))

\* C26 as claimed: when the goal is reachable from the start, the path a_star
\* returns has the least total edge length of all paths from start to goal.
AstarReturnsShortest ==
  (fout.pc = "done" /\ ShortestLength(fin) < Inf) =>
    /\ fout.found
    /\ PathLength(fin, fout.path) = ShortestLength(fin)


\* C27: a_star terminates; when the goal is reachable the result is a node
\* sequence from start to goal along existing edges, when it is not the result
\* is no path, and with start = goal the result is the single node start.
AstarTerminatesWithPath ==
  /\ <>(fout.pc = "done")
  /\ [](fout.pc = "done" =>
          /\ ShortestLength(fin) < Inf =>
               /\ fout.found
               /\ Len(fout.path) >= 1
               /\ fout.path[1] = fin.start
               /\ fout.path[Len(fout.path)] = fin.goal
               /\ FollowsEdges(fin, fout.path)
          /\ ShortestLength(fin) = Inf => (~fout.found /\ fout.path = <<>>)
          /\ fin.start = fin.goal => (fout.found /\ fout.path = <<fin.start>>))

\* C27 witness: a search over a two-way graph (so with cycles) that ended with
\* a path of at least two edges
AstarTerminatesWithPathWitness ==
  /\ fout.pc = "done"
  /\ fout.found
  /\ fin.twoway
  /\ Len(fout.path) >= 3


\* C28: when the model is missing or its output is neither a pair nor a
\* scalar, a call that reached the scoring step (A* route, multimodal
\* candidate and aligned departure present) completes and writes exactly one
\* row of optimized_routes: a chosen row of the client, direct or multimodal
\* as the distance + penalty + delay comparison decides.
HeuristicFallbackPersistsOne ==
  [][(~fout.done /\ fout'.done /\ lstm.shape \in {"none", "other"}
        /\ fout'.astar.present /\ SelM.present /\ SelD.present) =>
       LET written == optimized_routes' \ optimized_routes
           mapf_total == SelM.distance + 100
                           + (IF SelD.delay > 0 THEN SelD.delay ELSE 0)
       IN /\ fout'.plan.kind # "none"
          /\ Cardinality(written) = 1
          /\ \A r \in written :
               /\ r.client_id = "c1" /\ r.is_chosen /\ r.created_at = now
               /\ IF fout'.astar.distance < mapf_total
                  THEN /\ r.segment_type = "direct" /\ r.stop_id = "direct"
                       /\ r.path = fout'.astar.path
                  ELSE /\ r.segment_type = "multimodal"
                       /\ r.stop_id = SelM.stop_id
                       /\ r.path = SelM.path]_vars

\* C28 witness: an output of an unexpected shape, A* 500 m against a 450 m
\* multimodal candidate with no delay, and the direct row written over a
\* history of earlier rows
HeuristicFallbackPersistsOneWitness ==
  /\ fout.done
  /\ lstm.shape = "other"
  /\ SelA.present /\ SelA.distance = 500
  /\ SelM.present /\ SelM.distance = 450 /\ SelD.present /\ SelD.delay = 0
  /\ Cardinality(optimized_routes) >= 2
  /\ SelWrote("direct", "direct", Loads(SelA.path))


----------------------------------------------------------------------------
\* producer/db/db_connection.py and producer/producer_out.py: the polling loop
\* of publish_results over a database with sessions

POLL_SECONDS == 5    \* publish_results(poll_seconds: int = 5)

Session(c, id, from, to) ==
  [client_id |-> c, session_id |-> id, start_time |-> from, end_time |-> to]

\* mqtt_sessions: two consecutive sessions of c1, a third one overlapping
\* both, and one session of c2
MqttSessions ==
  {Session("c1", 1, 0, 20), Session("c1", 2, 20, 40), Session("c1", 4, 10, 30),
   Session("c2", 3, 0, 19)}

RouteRow(c, stop, t, tbl, valid) ==
  [client_id |-> c, stop_id |-> stop, created_at |-> t, table |-> tbl,
   is_valid |-> valid]

\* rows of optimized_routes and of reroutes
RouteRows ==
  {RouteRow("c1", "direct", 15, "optimized_routes", TRUE),
   RouteRow("c1", "S100", 15, "optimized_routes", FALSE),
   RouteRow("c1", "S100", 20, "optimized_routes", TRUE),
   RouteRow("c1", "direct", 25, "reroutes", TRUE),
   RouteRow("c2", "direct", 18, "optimized_routes", TRUE),
   RouteRow("c2", "S100", 19, "reroutes", TRUE)}

\* the rows view_current_session_id_from_geodata may hold: at most one
\* session id for a client
CurrentSessionViews ==
  {v \in SUBSET {[client_id |-> s.client_id, session_id |-> s.session_id] :
                   s \in MqttSessions} :
     \A a, b \in v : a.client_id = b.client_id => a = b}

\* the database the publisher reads: the route rows, the sessions, the
\* current session id of each client and the database's NOW()
PubDatabases ==
  [routes : SUBSET RouteRows,
   sessions : {MqttSessions},
   current : CurrentSessionViews,
   now : {25, 30}]

\* view_current_session_id_from_geodata: the session id of the client's
\* latest geodata, no row for a client without one
view_current_session_id_from_geodata(db) == db.current

\* the SELECT of fetch_optimized_route with the window closed at end_time
UnifiedQueryClosedWindow(db) ==
  LET r_all == {r \in db.routes : r.table = "reroutes" \/ r.is_valid}
  IN {[client_id |-> p[1].client_id, session_id |-> p[2].session_id,
       stop_id |-> p[1].stop_id, created_at |-> p[1].created_at] :
        p \in {q \in r_all \X db.sessions :
            /\ q[2].client_id = q[1].client_id
            /\ q[1].created_at >= q[2].start_time
            /\ q[1].created_at <= q[2].end_time
            /\ \E c \in view_current_session_id_from_geodata(db) :
                 c.client_id = q[1].client_id /\ c.session_id = q[2].session_id
            /\ q[1].created_at >= db.now - FRESH_SECONDS}}

\* the SELECT of fetch_optimized_route: the valid optimized rows and the
\* reroutes, joined to the session whose window [start_time, end_time) holds
\* created_at and to the current session id, not older than 10 seconds
UnifiedQuery(db) ==
  LET r_all == {r \in db.routes : r.table = "reroutes" \/ r.is_valid}
  IN {[client_id |-> p[1].client_id, session_id |-> p[2].session_id,
       stop_id |-> p[1].stop_id, created_at |-> p[1].created_at] :
        p \in {q \in r_all \X db.sessions :
            /\ q[2].client_id = q[1].client_id
            /\ q[1].created_at >= q[2].start_time
            /\ q[1].created_at < q[2].end_time
            /\ \E c \in view_current_session_id_from_geodata(db) :
                 c.client_id = q[1].client_id /\ c.session_id = q[2].session_id
            /\ q[1].created_at >= db.now - FRESH_SECONDS}}

\* load_from_db with the exception of a failed SELECT left uncaught
LoadFromDbRaising(result, ok) ==
  IF ok THEN [raised |-> FALSE, rows |-> result]
  ELSE [raised |-> TRUE, rows |-> {}]

\* load_from_db: the rows of the SELECT, [] when connecting or executing fails
load_from_db(result, ok) ==
  [raised |-> FALSE, rows |-> IF ok THEN result ELSE {}]

\* fetch_optimized_route()
fetch_optimized_route(db, ok) == load_from_db(UnifiedQuery(db), ok)

\* rows = fetch_optimized_route() at the top of the while loop; an exception
\* that reaches publish_results ends the loop
PollFetch ==
  /\ fout.pc = "fetch"
  /\ \E ok \in BOOLEAN :
       LET res == fetch_optimized_route(fin, ok)
       IN IF res.raised
          THEN /\ fout' = [fout EXCEPT !.pc = "dead", !.error = TRUE]
               /\ UNCHANGED <<rows, pq>>
          ELSE /\ rows' = res.rows
               /\ pq' \in OrderedDesc(res.rows)
               /\ fout' = [pc |-> IF res.rows = {} THEN "sleep" ELSE "rows",
                           slept |-> 0, error |-> ~ok]
  /\ UNCHANGED <<envVars, dbVars, watcherVars, seen, sent, failed, pclock,
                 fin, supVars>>

\* one iteration of `for r in rows`: a publish that raises is logged; after
\* the last row the loop goes to sleep
PollRow ==
  /\ fout.pc = "rows"
  /\ pq # <<>>
  /\ pq' = Tail(pq)
  /\ LET r == Head(pq)
         key == KeyOf(r)
         pc == IF Tail(pq) = <<>> THEN "sleep" ELSE "rows"
     IN IF key \in seen
        THEN /\ fout' = [fout EXCEPT !.pc = pc]
             /\ UNCHANGED <<seen, sent, failed>>
        ELSE /\ seen' = SeenAdd(seen, key)
             /\ \/ /\ sent' = Append(sent, Payload(r))
                   /\ fout' = [fout EXCEPT !.pc = pc]
                   /\ UNCHANGED failed
                \/ /\ failed' = failed \cup {key}
                   /\ fout' = [fout EXCEPT !.pc = pc, !.error = TRUE]
                   /\ UNCHANGED sent
  /\ UNCHANGED <<envVars, dbVars, watcherVars, rows, pclock, fin, supVars>>

\* time.sleep(poll_seconds)
PollSleep ==
  /\ fout.pc = "sleep"
  /\ fout' = [fout EXCEPT !.pc = "fetch", !.slept = POLL_SECONDS]
  /\ UNCHANGED <<envVars, dbVars, watcherVars, pubVars, fin, supVars>>

InitPoll ==
  /\ PlannerIdle
  /\ RoutingIdle
  /\ SupIdle
  /\ PubIdle
  /\ fin \in PubDatabases
  /\ fout = [pc |-> "fetch", slept |-> 0, error |-> FALSE]

NextPoll ==
  \/ PollFetch
  \/ PollRow
  \/ PollSleep

SpecPoll == InitPoll /\ [][NextPoll]_vars /\ WF_vars(NextPoll)


----------------------------------------------------------------------------
\* Properties of the publisher over sessions

\* the sessions of mqtt_sessions that are the current session of client c
CurrentSessions(c) ==
  {s \in fin.sessions :
     /\ s.client_id = c
     /\ [client_id |-> c, session_id |-> s.session_id] \in fin.current}

InWindow(r, s) == s.start_time <= r.created_at /\ r.created_at < s.end_time

\* the messages published for the route row r
MessagesOf(r) ==
  {i \in 1 .. Len(sent) : /\ sent[i].client_id = r.client_id
                          /\ sent[i].stop_id = r.stop_id
                          /\ sent[i].timestamp = Iso(r.created_at)}

\* C29: every published message is the message of a route row of its client,
\* carries the id of the client's current session, and the row's created_at
\* lies in [start_time, end_time) of that session; a row for which the
\* client's current session has no such window (created outside it, at
\* exactly end_time, or inside another session only) has no message.
PublishedInCurrentWindow ==
  /\ \A i \in 1 .. Len(sent) :
       \E r \in fin.routes : \E s \in CurrentSessions(sent[i].client_id) :
         /\ i \in MessagesOf(r)
         /\ s.session_id = sent[i].session_id
         /\ InWindow(r, s)
  /\ \A r \in fin.routes :
       (\A s \in CurrentSessions(r.client_id) : ~InWindow(r, s)) =>
         MessagesOf(r) = {}

\* C29 witness: after a poll, the row of c1 created at 20 (the end of session
\* 1 and the start of the current session 2) is published with session 2,
\* and the row of c2 created at 19, the end_time of c2's current session,
\* is not
PublishedInCurrentWindowWitness ==
  /\ fout.pc = "sleep"
  /\ \E s \in CurrentSessions("c1") : s.session_id = 2
  /\ \E i \in 1 .. Len(sent) :
       /\ sent[i].client_id = "c1" /\ sent[i].session_id = 2
       /\ sent[i].timestamp = Iso(20)
  /\ \E s \in CurrentSessions("c2") : s.end_time = 19
  /\ \E r \in fin.routes :
       /\ r.client_id = "c2" /\ r.created_at = 19
       /\ r.created_at >= fin.now - FRESH_SECONDS
       /\ MessagesOf(r) = {}


\* C30: no failed fetch and no failed publish ends the polling loop or skips
\* rows: the loop never stops on an exception; a failed fetch is an empty poll
\* that goes to the sleep; after a failed publish the rest of the poll's rows
\* is still processed, so at the sleep every row of the poll has been handled;
\* the sleep lasts poll_seconds and is followed by the next fetch, which every
\* iteration with an error reaches.
PollSurvivesErrors ==
  /\ [](fout.pc # "dead")
  /\ [][(fout.pc = "fetch" /\ fout'.error) =>
          (fout'.pc = "sleep" /\ pq' = <<>>)]_vars
  /\ [][failed' # failed =>
          /\ pq' = Tail(pq)
          /\ fout'.pc = IF pq' = <<>> THEN "sleep" ELSE "rows"]_vars
  /\ [](fout.pc = "sleep" => \A r \in rows : KeyOf(r) \in seen)
  /\ [][fout.pc = "sleep" =>
          (fout'.pc = "fetch" /\ fout'.slept = POLL_SECONDS)]_vars
  /\ (fout.error ~> (fout.pc = "fetch" /\ fout.slept = POLL_SECONDS))

\* C30 witness: the poll's first row failed to publish, a later row of the
\* same poll was published, and the loop slept and is at its next fetch
PollSurvivesErrorsWitness ==
  /\ fout.pc = "fetch" /\ fout.slept = POLL_SECONDS /\ fout.error
  /\ \E r1, r2 \in rows :
       /\ KeyOf(r1) \in failed
       /\ r2.created_at < r1.created_at
       /\ \E i \in 1 .. Len(sent) : MsgKey(sent[i]) = KeyOf(r2)


----------------------------------------------------------------------------
\* mapf/main.py, mapf/mapf_engine.py, mapf/cbs.py, mapf/db/db_connection.py

MapfAstar(c, d, stop, path, t) ==
  [client_id |-> c, destination |-> d, stop_id |-> stop, path |-> path,
   created_at |-> t]

\* rows of astar_routes: two polylines of c1 to D1, the later one newer, the
\* row the selector's fallback seeds (no stop_id, no path), a route of c1 to
\* D2, and for c2 a route and a later row without a path
MapfAstarRows ==
  {MapfAstar("c1", "D1", "S100", Wkt(<<"L1", "D1">>), 1),
   MapfAstar("c1", "D1", "S100", Wkt(<<"L2", "D1">>), 2),
   MapfAstar("c1", "D1", NULL, NULL, 3),
   MapfAstar("c1", "D2", "S100", Wkt(<<"L1", "D2">>), 4),
   MapfAstar("c2", "D1", "S100", Wkt(<<"L1", "D1">>), 1),
   MapfAstar("c2", "D1", "S100", NULL, 2),
   MapfAstar("c2", "D1", "S100", Wkt(LineStringEmpty), 3)}

MapfInsert(c, d, stop, wkt) ==
  [client_id |-> c, destination |-> d, stop_id |-> stop, path |-> wkt]

\* rows of mapf_routes left by earlier cycles
MapfOldRows ==
  {MapfInsert("c1", "D1", "S100", Wkt(<<"L1", "D1">>)),
   MapfInsert("c2", "D1", "S100", Wkt(<<"L1", "D1">>))}

\* fetch_astar_target: the client's latest astar_routes row
fetch_astar_target(tbl, c) ==
  LET mine == {r \in tbl : r.client_id = c}
  IN IF mine = {} THEN [present |-> FALSE, destination |-> NULL, stop_id |-> NULL]
     ELSE [present |-> TRUE, destination |-> Latest(mine).destination,
           stop_id |-> Latest(mine).stop_id]

\* fetch_astar_path reading the newest row that has a path
FetchAstarPathSkippingNull(tbl, c, d) ==
  LET mine == {r \in tbl : /\ r.client_id = c /\ r.destination = d
                           /\ r.path # NULL}
  IN IF mine = {} THEN [raised |-> FALSE, found |-> FALSE, coords |-> <<>>]
     ELSE [raised |-> FALSE, found |-> TRUE, coords |-> Loads(Latest(mine).path)]

\* fetch_astar_path: the coordinates of the latest row for (client,
\* destination); None without a row; shapely.wkb.loads(None) raises
fetch_astar_path(tbl, c, d) ==
  LET mine == {r \in tbl : r.client_id = c /\ r.destination = d}
  IN IF mine = {} THEN [raised |-> FALSE, found |-> FALSE, coords |-> <<>>]
     ELSE IF Latest(mine).path = NULL
          THEN [raised |-> TRUE, found |-> FALSE, coords |-> <<>>]
          ELSE [raised |-> FALSE, found |-> TRUE,
                coords |-> Loads(Latest(mine).path)]

\* CBSSolver.find_solution with the single goal: [path], or an exception
find_solution(tbl, c, d) ==
  LET p == fetch_astar_path(tbl, c, d)
  IN IF p.raised \/ ~p.found THEN [raised |-> TRUE, paths |-> <<>>]
     ELSE [raised |-> FALSE, paths |-> <<p.coords>>]

\* run_mapf_for_client: the rows mapf_routes may hold afterwards; the INSERT
\* is ON CONFLICT DO NOTHING on a constraint the repository does not show, so
\* a row equal in client, destination and stop may or may not block it
run_mapf_for_client(mapf, tbl, c, d, stop) ==
  LET sol == find_solution(tbl, c, d)
  IN IF sol.raised THEN {mapf}
     ELSE IF sol.paths[1] = <<>> THEN {mapf}
     ELSE LET row == MapfInsert(c, d, stop, Wkt(sol.paths[1]))
          IN IF \E r \in mapf : /\ r.client_id = c /\ r.destination = d
                                /\ r.stop_id = stop
             THEN {mapf, mapf \cup {row}}
             ELSE {mapf \cup {row}}

\* one iteration of `for client_id in clients` of main()
MapfClient ==
  /\ fout.queue # <<>>
  /\ LET c == Head(fout.queue)
         target == fetch_astar_target(fin.astar, c)
     IN \E m \in (IF ~target.present \/ target.stop_id = NULL
                  THEN {fout.mapf}
                  ELSE run_mapf_for_client(fout.mapf, fin.astar, c,
                                           target.destination, target.stop_id)) :
          fout' = [queue |-> Tail(fout.queue), mapf |-> m, client |-> c]
  /\ UNCHANGED <<envVars, dbVars, watcherVars, pubVars, fin, supVars>>

InitMapf ==
  /\ PlannerIdle
  /\ RoutingIdle
  /\ PubIdle
  /\ SupIdle
  /\ fin \in [astar : SUBSET MapfAstarRows]
  /\ fout \in [queue : {<<"c1", "c2">>}, mapf : SUBSET MapfOldRows,
               client : {NULL}]

NextMapf == MapfClient

SpecMapf == InitMapf /\ [][NextMapf]_vars

----------------------------------------------------------------------------
\* Properties of the MAPF cycle

\* the latest astar_routes row of (c, d)
MapfLatest(c, d) ==
  Latest({r \in fin.astar : r.client_id = c /\ r.destination = d})

\* C31: a step of the MAPF loop adds a mapf_routes row only for the client it
\* visits, only when astar_routes holds a row for the row's (client,
\* destination) whose latest path is not NULL, and the added row carries that
\* latest polyline and the target's stop_id; when the client has no A* row or
\* the latest path is NULL nothing is added; and the step always passes to
\* the next client.
MapfWrapsLatestAstar ==
  [][/\ fout'.queue = Tail(fout.queue)
     /\ fout.mapf \subseteq fout'.mapf
     /\ \A row \in fout'.mapf \ fout.mapf :
          /\ row.client_id = Head(fout.queue)
          /\ \E r \in fin.astar :
               r.client_id = row.client_id /\ r.destination = row.destination
          /\ MapfLatest(row.client_id, row.destination).path # NULL
          /\ row.path = MapfLatest(row.client_id, row.destination).path
          /\ row.stop_id = MapfLatest(row.client_id, row.destination).stop_id
     /\ LET c == Head(fout.queue)
            mine == {r \in fin.astar : r.client_id = c}
        IN (mine = {} \/ Latest(mine).path = NULL) =>
             fout'.mapf = fout.mapf]_vars

\* C31 witness: c1 has an older and a newer polyline to D1, the cycle added
\* the row with the newer one, skipped c2 whose latest row has no path, and
\* finished
MapfWrapsLatestAstarWitness ==
  /\ fout.queue = <<>>
  /\ MapfAstar("c1", "D1", "S100", Wkt(<<"L1", "D1">>), 1) \in fin.astar
  /\ MapfAstar("c2", "D1", "S100", Wkt(<<"L1", "D1">>), 1) \in fin.astar
  /\ \A r \in fin.astar : r.client_id = "c1" => r.created_at <= 2
  /\ \A r \in fin.astar : r.client_id = "c2" => r.created_at <= 2
  /\ MapfLatest("c2", "D1").path = NULL
  /\ MapfInsert("c1", "D1", "S100", Wkt(<<"L2", "D1">>)) \in fout.mapf
  /\ \A r \in fout.mapf : r.client_id # "c2"


----------------------------------------------------------------------------
\* Properties of concurrent evaluations

\* C32 as claimed: evaluate_and_store_best_route never runs twice at once for
\* a client: the planner starts the thread of a client only when the client's
\* earlier thread is no longer running.
NoOverlappingEvaluation ==
  [][\A c \in Clients :
       (ppc = "launch" /\ Head(plaunch) = c /\ wk'[c] = "running") =>
         wk[c] # "running"]_vars


\* C33 as claimed: the previous_stop_id and previous_segment_type of a reroute
\* event are those of the row that was the client's chosen route just before
\* the row recorded as new was written. Every write touches one row, so that
\* row is the second-latest row of the client or, when the write updated the
\* chosen row in place, the row recorded as new itself; without any earlier
\* row the previous fields are NULL.
EventPreviousIsPriorChoice ==
  [][rpc = "after" =>
       \A e \in reroutes' \ reroutes :
         LET mine == RowsOf(optimized_routes, e.client_id)
             older == mine \ {Latest(mine)}
             prev == <<e.previous_stop_id, e.previous_segment_type>>
             key(r) == <<r.stop_id, r.segment_type>>
         IN \/ prev = key(Latest(mine))
            \/ older # {} /\ prev = key(Latest(older))
            \/ older = {} /\ prev = <<NULL, NULL>>]_vars


----------------------------------------------------------------------------
\* Properties of the deviation test

\* C34 as claimed: the deviation test of a watcher tick returns a (fire,
\* reason) result and does not raise, whatever the chosen row and the streak
\* count are.
DeviationTestNeverRaises ==
  chk.client # NULL => ~chk.raised


----------------------------------------------------------------------------
\* The reroute watcher with two active clients, the first with a routed A*
\* path to its POI

InitStreak ==
  /\ active = <<"c1", "c2">>
  /\ lstm = Unavailable
  /\ poi \in {[c \in Clients |-> IF c = "c1" THEN "D1" ELSE d] : d \in {NULL, "D1"}}
  /\ astar_routes = [c \in Clients |-> [d \in Dests |->
                       IF c = "c1" /\ d = "D1" THEN AstarRow("D1") ELSE NoAstar]]
  /\ mapf_routes = [c \in Clients |-> [d \in Dests |-> NoMapf]]
  /\ departures = [c \in Clients |-> [s \in Stops |-> NoDep]]
  /\ top_routes = [c \in Clients |-> {}]
  /\ switch_profile = [c \in Clients |-> NoProfile]
  /\ optimized_routes = {}
  /\ reroutes = {}
  /\ now = 1
  /\ off_counts = [c \in Clients |-> 0]
  /\ rq = <<>>
  /\ rpc = "sleep"
  /\ chk = NoChk
  /\ rr = NoRr
  /\ prevOff = [c \in Clients |-> FALSE]
  /\ nchanges = [c \in Clients |-> 0]
  /\ PubIdle
  /\ FunIdle
  /\ SupIdle

SpecStreak == InitStreak /\ [][NextWatch]_vars

\* C35: a client's streak counter changes only in the deviation test of a
\* tick of that client, by +1 when the tick is off-path and to 0 when it is in
\* tolerance; a tick without a latest location or without a path in the
\* choice, the ticks of the other client, the GTFS test and every step of a
\* fired reroute leave it as it is.
StreakChangesOnlyInTest ==
  [][LET tick == rpc = "check" /\ <<rq, rpc>>' # <<rq, rpc>>
     IN /\ \A c \in Clients :
             off_counts'[c] # off_counts[c] =>
               /\ tick /\ Head(rq) = c
               /\ chk'.client = c /\ chk'.ran
        /\ (tick /\ chk'.ran) =>
             off_counts'[chk'.client] =
               IF chk'.off THEN off_counts[chk'.client] + 1 ELSE 0
        /\ (tick /\ ~chk'.ran) => UNCHANGED off_counts
        /\ ~tick => UNCHANGED off_counts]_vars

\* C35 witness: the reroute that c1's streak of 2 fired has run to its end
\* and the streak is still 2, while the watcher has gone through a tick of c2
\* without a latest location
StreakChangesOnlyInTestWitness ==
  /\ off_counts["c1"] = 2
  /\ rr.client = "c1" /\ rr.reason = "off_path_61m"
  /\ rpc = "sleep"
  /\ chk.client = "c2" /\ ~chk.located
  /\ prevOff["c1"]


----------------------------------------------------------------------------
\* routing/selector.py over a database whose reads can fail

\* routing/db load_from_db for the A* query: the rows, or None when the
\* SELECT fails, which `if not astar_rows` reads as no row
LoadAstarRows(tbl, ok) ==
  IF ok THEN tbl ELSE [c \in Clients |-> [d \in Dests |-> NoAstar]]

\* evaluate_and_store_best_route("c1") with the A* SELECT succeeding or failing
SelCallReads ==
  /\ ~fout.done
  /\ \E loc \in Locs, ok \in BOOLEAN :
       LET plan == EvaluateOn("c1", loc, LoadAstarRows(astar_routes, ok),
                              optimized_routes)
       IN /\ Commit("c1", plan)
          /\ fout' = [done |-> TRUE, plan |-> plan,
                      astar |-> astar_routes["c1"]["D1"], loc |-> loc,
                      ratios |-> get_route_usage_ratios(optimized_routes, "c1"),
                      read_ok |-> ok]
  /\ UNCHANGED <<active, poi, mapf_routes, departures, lstm, top_routes,
                 switch_profile, reroutes, watcherVars, pubVars, fin, supVars>>

NextReads == SelCallReads

SpecReads == InitSel /\ [][NextReads]_vars

\* C36 as claimed: a call whose A* read failed leaves optimized_routes and
\* astar_routes unchanged.
FailedReadWritesNothing ==
  [][(~fout.done /\ fout'.done /\ ~fout'.read_ok) =>
       UNCHANGED <<optimized_routes, astar_routes>>]_vars


----------------------------------------------------------------------------
\* routing/selector.py: the model path of the choice on its own: the inputs
\* are drawn in the initial state and one step applies the scoring

\* model outputs: pairs and scalars over a grid of percents
BlendOutputs ==
  {Pair(a, b) : a, b \in {0, 1, 30, 49, 50, 51, 70, 99, 100}}
    \cup {[shape |-> "scalar", a |-> s, b |-> 0] : s \in {0, 49, 50, 51, 100}}

\* usage ratios (astar_ratio, mapf_ratio) = (a / den, m / den), from all
\* direct to all multimodal
BlendRatios ==
  {[a |-> a, m |-> den - a, den |-> den] : a \in 0 .. 5, den \in {5}}
    \cup {[a |-> a, m |-> 1 - a, den |-> 1] : a \in 0 .. 1}

BlendInputs ==
  [out : BlendOutputs, ratios : BlendRatios, route_id : {NULL, "14"},
   top : {{}, {"14"}}, delay : {0, 60, 61}, profile : SelProfiles]

\* step 5 of evaluate_and_store_best_route: scores, blend, tie-breaker
BlendCall ==
  /\ ~fout.done
  /\ LET scores == _predict_with_lstm(fin.out)
         blended == _blend_with_history(scores, fin.ratios, fin.route_id, fin.top)
     IN fout' = [done |-> TRUE, scores |-> scores, blended |-> blended,
                 choice |-> FinalChoice(blended, fin.delay, fin.profile)]
  /\ UNCHANGED <<envVars, dbVars, watcherVars, pubVars, fin, supVars>>

InitBlend ==
  /\ PlannerIdle
  /\ RoutingIdle
  /\ PubIdle
  /\ SupIdle
  /\ fin \in BlendInputs
  /\ fout = [done |-> FALSE, scores |-> _predict_with_lstm(Unavailable),
             blended |-> [astar |-> 0, mapf |-> 0], choice |-> "astar"]

NextBlend == BlendCall

SpecBlend == InitBlend /\ [][NextBlend]_vars

\* C37: when the model's two scores differ, the final choice is the model's
\* argmax and the blended scores differ by at least 0.10 of their sum, for
\* every usage ratio, with and without the favoured-route nudge, and whatever
\* the delay and the switching profile are.
ModelArgmaxDecides ==
  (fout.done /\ fout.scores.astar # fout.scores.mapf) =>
    /\ fout.choice = IF fout.scores.mapf > fout.scores.astar THEN "mapf"
                     ELSE "astar"
    /\ 100 * Abs(fout.blended.mapf - fout.blended.astar)
         >= CLOSE_MARGIN * (fout.blended.astar + fout.blended.mapf)

\* C37 witness: the model prefers A* by one percent, the history is all
\* multimodal, the departure is on a favoured route, the delay is 0 and the
\* client switches fast, and the choice is A*
ModelArgmaxDecidesWitness ==
  /\ fout.done
  /\ fin.out = Pair(50, 49)
  /\ fin.ratios = [a |-> 0, m |-> 5, den |-> 5]
  /\ fin.route_id = "14" /\ fin.top = {"14"}
  /\ fin.delay = 0 /\ fin.profile = [present |-> TRUE, seconds |-> 120]
  /\ fout.choice = "astar"



\* the created_at a message's timestamp was formatted from
CreatedAtOf(m) == CHOOSE t \in 0 .. 40 : Iso(t) = m.timestamp

\* C38: on one topic (client_id, session_id) the messages are published in
\* non-decreasing created_at order, so the last message of the topic, the
\* retained one, is that of the greatest created_at published on the topic.
PublishedInCreationOrder ==
  \A i, j \in 1 .. Len(sent) :
    (/\ i < j
     /\ sent[i].client_id = sent[j].client_id
     /\ sent[i].session_id = sent[j].session_id)
      => CreatedAtOf(sent[i]) <= CreatedAtOf(sent[j])



\* C39: every row of reroutes and every valid row of optimized_routes whose
\* created_at lies in the window of its client's current session is
\* eventually published, in every run of the polling loop in which no fetch
\* and no publish fails.
EventuallyPublished ==
  \A r \in RouteRows :
    <>(\/ r \notin fin.routes
       \/ ~(r.table = "reroutes" \/ r.is_valid)
       \/ \A s \in CurrentSessions(r.client_id) : ~InWindow(r, s)
       \/ fout.error
       \/ failed # {}
       \/ MessagesOf(r) # {})



----------------------------------------------------------------------------
\* geodata_processor/main.py, geodata_processor/db/db_connection.py

GeoPoint(c, s, t) == [client_id |-> c, session_id |-> s, timestamp |-> t]

\* the points the subscriber receives: three of session 1 of c1, the last
\* one after the session's end_time, and one of session 3 of c2
GeoPoints ==
  {GeoPoint("c1", 1, 5), GeoPoint("c1", 1, 10), GeoPoint("c1", 1, 25),
   GeoPoint("c2", 3, 5)}

\* the timestamps of S in increasing order
RECURSIVE OrderedByTimestamp(_)
OrderedByTimestamp(S) ==
  IF S = {} THEN <<>>
  ELSE LET p == CHOOSE q \in S : \A r \in S : q.timestamp <= r.timestamp
       IN <<p.timestamp>> \o OrderedByTimestamp(S \ {p})

\* fetch_migratable_sessions_and_data: the geodata rows joined to their
\* session, timestamp BETWEEN start_time AND end_time
fetch_migratable_sessions_and_data(geodata) ==
  {g \in geodata :
     \E m \in MqttSessions :
       /\ g.client_id = m.client_id /\ g.session_id = m.session_id
       /\ m.start_time <= g.timestamp /\ g.timestamp <= m.end_time}

\* session_keys, the (client_id, session_id) pairs of the fetched rows
SessionKeys(fetched) == {<<r.client_id, r.session_id>> : r \in fetched}

\* save_trajectories: one INSERT ... ON CONFLICT (session_id) DO NOTHING for
\* each grouped session; an INSERT that raises is logged and skipped. The
\* set of tables the call may leave.
save_trajectories(trajectories, fetched) ==
  {trajectories \cup
     {[client_id |-> k[1], session_id |-> k[2],
       trajectory |-> OrderedByTimestamp({r \in fetched :
                         <<r.client_id, r.session_id>> = k})] :
        k \in {j \in stored : \A t \in trajectories : t.session_id # j[2]}} :
     stored \in SUBSET SessionKeys(fetched)}

\* delete_migrated_geodata_by_session_keys: DELETE FROM geodata WHERE
\* (client_id, session_id) IN (session_keys)
delete_migrated_geodata_by_session_keys(geodata, session_keys) ==
  {g \in geodata : <<g.client_id, g.session_id>> \notin session_keys}

\* subscriber: a received point is inserted into geodata
GeodataInsert ==
  /\ \E p \in fin.pending :
       fin' = [fin EXCEPT !.pending = @ \ {p}, !.geodata = @ \cup {p}]
  /\ UNCHANGED <<envVars, dbVars, watcherVars, pubVars, fout, supVars>>

\* migrate_geodata_to_trajectories, lines 17-20: the fetch; no rows, return
MigrateFetch ==
  /\ fout.pc = "fetch"
  /\ LET fetched == fetch_migratable_sessions_and_data(fin.geodata)
     IN fout' = [pc |-> IF fetched = {} THEN "sleep" ELSE "save",
                 rows |-> fetched]
  /\ UNCHANGED <<envVars, dbVars, watcherVars, pubVars, fin, supVars>>

\* lines 22-44: grouping and save_trajectories(trajectories)
MigrateSave ==
  /\ fout.pc = "save"
  /\ \E t \in save_trajectories(fin.trajectories, fout.rows) :
       fin' = [fin EXCEPT !.trajectories = t]
  /\ fout' = [fout EXCEPT !.pc = "delete"]
  /\ UNCHANGED <<envVars, dbVars, watcherVars, pubVars, supVars>>

\* lines 46-53: delete_migrated_geodata_by_session_keys(session_keys)
MigrateDelete ==
  /\ fout.pc = "delete"
  /\ fin' = [fin EXCEPT !.geodata =
               delete_migrated_geodata_by_session_keys(@, SessionKeys(fout.rows))]
  /\ fout' = [pc |-> "sleep", rows |-> {}]
  /\ UNCHANGED <<envVars, dbVars, watcherVars, pubVars, supVars>>

\* main: time.sleep(300) between two migrations
MigrateSleep ==
  /\ fout.pc = "sleep"
  /\ fout' = [pc |-> "fetch", rows |-> {}]
  /\ UNCHANGED <<envVars, dbVars, watcherVars, pubVars, fin, supVars>>

InitMigrate ==
  /\ PlannerIdle
  /\ RoutingIdle
  /\ PubIdle
  /\ SupIdle
  /\ fin = [geodata |-> {}, trajectories |-> {}, pending |-> GeoPoints]
  /\ fout = [pc |-> "fetch", rows |-> {}]

NextMigrate ==
  \/ GeodataInsert
  \/ MigrateFetch
  \/ MigrateSave
  \/ MigrateDelete
  \/ MigrateSleep

SpecMigrate == InitMigrate /\ [][NextMigrate]_vars

\* C40: a point leaves geodata only when the trajectory stored for its
\* session contains it, and a stored trajectory is never changed or removed.
MigrationLosesNoPoint ==
  [][/\ \A p \in fin.geodata \ fin'.geodata :
          \E t \in fin'.trajectories :
            /\ t.session_id = p.session_id
            /\ \E i \in 1 .. Len(t.trajectory) : t.trajectory[i] = p.timestamp
     /\ fin.trajectories \subseteq fin'.trajectories]_vars

====
